---- MODULE Spec2Model ----
\* Seeded numeric generation and constrained sampling core of faker:
\* NumberModule.int / bigInt and InternetModule.ipv4, over one Randomness
\* Source.  Numbers that may be non-integers (min, max, multipleOf of int)
\* are held as integer counts of 1/Scale; a draw of the source is a
\* fraction <<numerator, denominator>> in [0,1).  The arithmetic of the
\* drawing step is that of binary floating point, rounding every result to
\* the nearest number of MantissaBits significant bits, ties to even.
EXTENDS Integers, Naturals, Sequences, FiniteSets, TLC

\* ------------------------------------------------------------------ bounds
Scale == 2        \* non-integer arguments are multiples of 1/Scale
MaxAbs == 2       \* |min|, |max| <= MaxAbs (in whole units)
MaxMul == 3       \* multipleOf <= MaxMul (in whole units)
MantissaBits == 12 \* significant bits of a number (53 in a double), scaled
                   \* down with the ranges: 2^MantissaBits > 3999
MaxDraws == 2     \* draws taken from the source in one session
MaxInserted == 1  \* extra calls put into the second session
SweepK == 2       \* a swept int call sees SweepK * delta equally spaced draws

\* seed, pos: the Randomness Source, its seed and the number of draws taken
\* last: the call a caller has just made, with its outcome
\* runB: a second session on the same seed, into which extra calls are put
\* sweep: a call repeated over every value its source of randomness can give
VARIABLES seed, pos, last, runB, sweep

vars == <<seed, pos, last, runB, sweep>>

\* ------------------------------------------------------- number arithmetic
\* Number.isInteger(x), x a count of 1/Scale
IsInteger(x) == x % Scale = 0

\* Math.floor(a / b) for b > 0
Floor(a, b) == a \div b

\* Math.ceil(a / b) for b > 0
Ceil(a, b) == -((-a) \div b)

\* an absent option is <<>>, a supplied one is <<x>>
Default(opt, dflt) == IF opt = <<>> THEN dflt ELSE opt[1]

Nums == (-(MaxAbs * Scale))..(MaxAbs * Scale)
Muls == (-Scale)..(MaxMul * Scale)
Opt(S) == {<<>>} \cup {<<x>> : x \in S}

\* ------------------------------------------------- floating-point numbers
\* A number is <<m, e>>, standing for m * 2^e, with 2^(MantissaBits-1) <=
\* |m| < 2^MantissaBits, or <<0, 0>>.  The result of an operation is the
\* exact result rounded to the nearest number, a tie to the even mantissa.
RECURSIVE BitLength(_)
BitLength(n) == IF n = 0 THEN 0 ELSE 1 + BitLength(n \div 2)

\* n / 2^k rounded to the nearest integer, a tie to the even one (k >= 1)
RoundShift(n, k) ==
  LET q == n \div (2 ^ k)
      r == n % (2 ^ k)
      half == 2 ^ (k - 1)
  IN IF r > half \/ (r = half /\ q % 2 = 1) THEN q + 1 ELSE q

\* the number nearest to m * 2^e, for m > 0
NormalMagnitude(m, e) ==
  LET b == BitLength(m)
  IN IF b > MantissaBits
       THEN LET q == RoundShift(m, b - MantissaBits)
            IN IF q = 2 ^ MantissaBits
                 THEN <<2 ^ (MantissaBits - 1), e + b - MantissaBits + 1>>
                 ELSE <<q, e + b - MantissaBits>>
     ELSE <<m * (2 ^ (MantissaBits - b)), e - (MantissaBits - b)>>

\* the number nearest to m * 2^e
FloatOf(m, e) ==
  IF m = 0 THEN <<0, 0>>
  ELSE IF m > 0 THEN NormalMagnitude(m, e)
  ELSE <<-NormalMagnitude(-m, e)[1], NormalMagnitude(-m, e)[2]>>

Neg(a) == <<-a[1], a[2]>>

\* a * b
FMul(a, b) == FloatOf(a[1] * b[1], a[2] + b[2])

\* a + b: an operand below a quarter of the other's last place is absorbed
FAdd(a, b) ==
  IF a[1] = 0 THEN b
  ELSE IF b[1] = 0 THEN a
  ELSE LET hi == IF a[2] >= b[2] THEN a ELSE b
           lo == IF a[2] >= b[2] THEN b ELSE a
           d == hi[2] - lo[2]
       IN IF d > MantissaBits + 2 THEN hi
          ELSE FloatOf(hi[1] * (2 ^ d) + lo[1], lo[2])

\* a - b
FSub(a, b) == FAdd(a, Neg(b))

\* a / b, b # 0: the quotient to MantissaBits + 2 bits and a sticky bit
FDiv(a, b) ==
  IF a[1] = 0 THEN <<0, 0>>
  ELSE LET ma == IF a[1] < 0 THEN -a[1] ELSE a[1]
           mb == IF b[1] < 0 THEN -b[1] ELSE b[1]
           n == ma * (2 ^ (MantissaBits + 1))
           q == 2 * (n \div mb) + (IF n % mb > 0 THEN 1 ELSE 0)
       IN FloatOf(IF (a[1] < 0) = (b[1] < 0) THEN q ELSE -q,
                  a[2] - b[2] - MantissaBits - 2)

\* a < b and a <= b
FLess(a, b) == FSub(a, b)[1] < 0
FLessEq(a, b) == FSub(a, b)[1] <= 0

\* Math.floor(x) and Math.ceil(x)
MathFloor(x) ==
  IF x[2] >= 0 THEN x[1] * (2 ^ x[2])
  ELSE IF -x[2] > 30 THEN (IF x[1] < 0 THEN -1 ELSE 0)
  ELSE x[1] \div (2 ^ (-x[2]))
MathCeil(x) == -MathFloor(Neg(x))

\* the number written n, and the one written n/d (n, d integers, d > 0)
FromInt(n) == FloatOf(n, 0)
FromRatio(n, d) == FDiv(FromInt(n), FromInt(d))

\* ------------------------------------------------------- Randomness Source
\* the source returns multiples of 2^-MantissaBits in [0,1): numerators
\* over RDen.  A sequence is made of the draws DrawNums, taken in turn from
\* the place the seed fixes.
RDen == 2 ^ MantissaBits
DrawNums == <<0, RDen \div 4, (RDen \div 2) - 1, RDen \div 2,
              (3 * RDen) \div 4, (7 * RDen) \div 8, RDen - 2, RDen - 1>>
Seeds == 0..(Len(DrawNums) - 1)

\* randomizer.next(): the draw at position p of the sequence fixed by seed s
Real(s, p) == <<DrawNums[((s + p) % Len(DrawNums)) + 1], RDen>>

\* ------------------------------------------------------------ outcomes
\* a returned number, a returned string, a thrown FakerError; draws is the
\* number of randomizer.next() calls made on the way
Return(v, d) == [kind |-> "value", value |-> v, text |-> <<>>, error |-> "", draws |-> d]
ReturnText(t, d) == [kind |-> "value", value |-> 0, text |-> t, error |-> "", draws |-> d]
\* an error thrown only after randomizer.next() has been called
ThrowAfterDraw(e) == [kind |-> "error", value |-> 0, text |-> <<>>, error |-> e, draws |-> 1]
Throw(e) == [kind |-> "error", value |-> 0, text |-> <<>>, error |-> e, draws |-> 0]

\* ------------------------------------------------------- NumberModule.int
\* min, max, multipleOf are counts of 1/Scale; real is the draw next()
\* would return; the outcome's draws tells whether next() was called.
\* Math.ceil(min / multipleOf) and Math.floor(max / multipleOf): rounding
\* the quotient of two numbers of at most MantissaBits bits never moves it
\* onto or across an integer, so the ceiling and the floor are those of the
\* exact quotient.
effectiveMinOf(min, multipleOf) == Ceil(min, multipleOf)
effectiveMaxOf(max, multipleOf) == Floor(max, multipleOf)
\* effectiveMax - effectiveMin + 1
deltaOf(effectiveMin, effectiveMax) == effectiveMax - effectiveMin + 1

\* Math.floor(real * delta + effectiveMin) * multipleOf: the product and
\* the sum are rounded, the floor and the last product (of integers) are
\* exact
IntDraw(effectiveMin, delta, multipleOf, real) ==
  MathFloor(FAdd(FMul(FromRatio(real[1], real[2]), FromInt(delta)),
                 FromInt(effectiveMin))) * multipleOf

\* the stride check without its isInteger test
checkMultipleOfNoInteger(multipleOf) ==
  IF multipleOf <= 0 THEN "InvalidArgument" ELSE ""

\* the two checks of multipleOf: "multipleOf should be an integer." and
\* "multipleOf should be greater than 0." (both InvalidArgument); "" if fine
checkMultipleOf(multipleOf) ==
  IF ~IsInteger(multipleOf) THEN "InvalidArgument"
  ELSE IF multipleOf <= 0 THEN "InvalidArgument"
  ELSE ""

\* the error of an empty range with max > min in place of max >= min
emptyRangeErrorStrict(min, max) ==
  IF max > min THEN "RangeExhausted" ELSE "InvalidRange"

\* effectiveMax < effectiveMin: "No suitable integer value between ..."
\* (RangeExhausted) if max >= min, else "Max ... should be greater than
\* min ..." (InvalidRange)
emptyRangeError(min, max) ==
  IF max >= min THEN "RangeExhausted" ELSE "InvalidRange"

\* the drawing path that forgets to advance the source
drawnForgetful(v) == Return(v, 0)

\* the value computed from one call of randomizer.next()
drawn(v) == Return(v, 1)

\* the collapsed path calling randomizer.next() before it returns
collapsedDrawing(effectiveMin, multipleOf) == Return(effectiveMin * multipleOf, 1)

\* effectiveMin === effectiveMax: return without touching the source
collapsed(effectiveMin, multipleOf) == Return(effectiveMin * multipleOf, 0)

\* int from the computation of the effective range on; min, max and
\* multipleOf are counts of one unit
intEffective(min, max, multipleOf, real) ==
  LET effectiveMin == effectiveMinOf(min, multipleOf)
      effectiveMax == effectiveMaxOf(max, multipleOf)
  IN IF effectiveMin = effectiveMax
       THEN collapsed(effectiveMin, multipleOf)
     ELSE IF effectiveMax < effectiveMin
       THEN Throw(emptyRangeError(min, max))
     ELSE drawn(IntDraw(effectiveMin,
                        deltaOf(effectiveMin, effectiveMax),
                        multipleOf, real))

intRange(min, max, multipleOf, real) ==
  IF checkMultipleOf(multipleOf) # "" THEN Throw(checkMultipleOf(multipleOf))
  ELSE intEffective(min, max, multipleOf, real)

\* int(options): a bare number is {max: options}; min defaults to 0 and
\* multipleOf to 1.  (max is always supplied here: its default,
\* Number.MAX_SAFE_INTEGER, is outside the ranges explored.)
Bare(n) == [isNumber |-> TRUE, min |-> <<>>, max |-> <<n>>, multipleOf |-> <<>>]
Options(mn, mx, mo) == [isNumber |-> FALSE, min |-> mn, max |-> mx, multipleOf |-> mo]
minOf(options) == Default(options.min, 0)
maxOf(options) == options.max[1]
multipleOfOf(options) == Default(options.multipleOf, 1 * Scale)

int(options, real) ==
  intRange(minOf(options), maxOf(options), multipleOfOf(options), real)

\* ------------------------------------------------------------ strings
\* a string is the sequence of its characters
Digits == <<"0", "1", "2", "3", "4", "5", "6", "7", "8", "9">>
IsDigit(c) == \E i \in 1..10 : Digits[i] = c
DigitVal(c) == (CHOOSE i \in 1..10 : Digits[i] = c) - 1

\* n.toString(10) for n >= 0
RECURSIVE ToString10(_)
ToString10(n) ==
  IF n < 10 THEN <<Digits[n + 1]>>
  ELSE ToString10(n \div 10) \o <<Digits[(n % 10) + 1]>>

\* Number(text) / Number.parseInt(text) / BigInt(text) of a digit string
RECURSIVE ParseDigits(_)
ParseDigits(text) ==
  IF text = <<>> THEN 0
  ELSE ParseDigits(SubSeq(text, 1, Len(text) - 1)) * 10 + DigitVal(text[Len(text)])

\* text.split(sep), sep one character
RECURSIVE Split(_, _)
Split(text, sep) ==
  IF \A i \in 1..Len(text) : text[i] # sep THEN <<text>>
  ELSE LET i == CHOOSE j \in 1..Len(text) :
                  text[j] = sep /\ \A k \in 1..(j - 1) : text[k] # sep
       IN <<SubSeq(text, 1, i - 1)>> \o Split(SubSeq(text, i + 1, Len(text)), sep)

\* parts.join(sep)
RECURSIVE Join(_, _)
Join(parts, sep) ==
  IF Len(parts) = 0 THEN <<>>
  ELSE IF Len(parts) = 1 THEN parts[1]
  ELSE parts[1] \o <<sep>> \o Join(Tail(parts), sep)

\* /^\d{min,max}$/
IsDigitRun(text, min, max) ==
  /\ Len(text) >= min /\ Len(text) <= max
  /\ \A i \in 1..Len(text) : IsDigit(text[i])

\* ------------------------------------------------------ 32-bit words
\* the operands of JavaScript's bitwise operators, held as <<high, low>>
\* halves of 16 bits each
Half == 65536
WordOf(n) == <<n \div Half, n % Half>>
AllOnes == <<Half - 1, Half - 1>>
\* the number a word stands for, when below 2^31
ValueOf(w) == w[1] * Half + w[2]

\* w >>> count and w << count: the count is taken modulo 32
ShiftRightU(w, count) ==
  LET c == count % 32
  IN IF c >= 16 THEN <<0, w[1] \div (2 ^ (c - 16))>>
     ELSE <<w[1] \div (2 ^ c),
            (w[2] \div (2 ^ c)) + (w[1] % (2 ^ c)) * (2 ^ (16 - c))>>
ShiftLeft(w, count) ==
  LET c == count % 32
  IN IF c >= 16 THEN <<(w[2] % (2 ^ (32 - c))) * (2 ^ (c - 16)), 0>>
     ELSE <<(w[1] % (2 ^ (16 - c))) * (2 ^ c) + (w[2] \div (2 ^ (16 - c))),
            (w[2] % (2 ^ (16 - c))) * (2 ^ c)>>

RECURSIVE HalfOr(_, _)
HalfOr(a, b) ==
  IF a = 0 THEN b ELSE IF b = 0 THEN a
  ELSE (IF a % 2 = 1 \/ b % 2 = 1 THEN 1 ELSE 0) + 2 * HalfOr(a \div 2, b \div 2)
RECURSIVE HalfAnd(_, _)
HalfAnd(a, b) ==
  IF a = 0 \/ b = 0 THEN 0
  ELSE (IF a % 2 = 1 /\ b % 2 = 1 THEN 1 ELSE 0) + 2 * HalfAnd(a \div 2, b \div 2)
BitOr(v, w) == <<HalfOr(v[1], w[1]), HalfOr(v[2], w[2])>>
BitAnd(v, w) == <<HalfAnd(v[1], w[1]), HalfAnd(v[2], w[2])>>
BitNot(w) == <<Half - 1 - w[1], Half - 1 - w[2]>>

\* naturals beyond 32 bits: sequences of base-65536 digits, least
\* significant first
WordDigits(w) == <<w[2], w[1]>>
DigitsWord(ds) == <<IF Len(ds) >= 2 THEN ds[2] ELSE 0, IF Len(ds) >= 1 THEN ds[1] ELSE 0>>
RECURSIVE NatDigits(_)
NatDigits(n) == IF n = 0 THEN <<>> ELSE <<n % Half>> \o NatDigits(n \div Half)
RECURSIVE MulSmall(_, _, _)
MulSmall(ds, k, carry) ==
  IF ds = <<>> THEN NatDigits(carry)
  ELSE <<(k * Head(ds) + carry) % Half>>
         \o MulSmall(Tail(ds), k, (k * Head(ds) + carry) \div Half)
AddSmall(ds, k) == MulSmall(ds, 1, k)
RECURSIVE DivFrom(_, _, _, _)
DivFrom(ds, d, i, rem) ==
  IF i > Len(ds) THEN <<>>
  ELSE LET j == Len(ds) + 1 - i
           t == Half * rem + ds[j]
       IN DivFrom(ds, d, i + 1, t % d) \o <<t \div d>>
FloorDivSmall(ds, d) == DivFrom(ds, d, 1, 0)

\* ------------------------------------------------- InternetModule.ipv4
Octets == {0, 172, 300}
MaxPrefix == 34
NetworkNames == {"any", "loopback", "private-a", "private-b", "private-c",
                 "test-net-1", "test-net-2", "test-net-3", "link-local",
                 "multicast"}

\* the text `o1.o2.o3.o4/p`
CidrText(o1, o2, o3, o4, p) ==
  Join(<<ToString10(o1), ToString10(o2), ToString10(o3), ToString10(o4)>>, ".")
    \o <<"/">> \o ToString10(p)

\* the table with private-b given the prefix length of private-a
ipv4NetworksWide ==
  ("any" :> CidrText(0, 0, 0, 0, 0))
    @@ ("loopback" :> CidrText(127, 0, 0, 0, 8))
    @@ ("private-a" :> CidrText(10, 0, 0, 0, 8))
    @@ ("private-b" :> CidrText(172, 16, 0, 0, 8))
    @@ ("private-c" :> CidrText(192, 168, 0, 0, 16))
    @@ ("test-net-1" :> CidrText(192, 0, 2, 0, 24))
    @@ ("test-net-2" :> CidrText(198, 51, 100, 0, 24))
    @@ ("test-net-3" :> CidrText(203, 0, 113, 0, 24))
    @@ ("link-local" :> CidrText(169, 254, 0, 0, 16))
    @@ ("multicast" :> CidrText(224, 0, 0, 0, 4))

ipv4Networks ==
  ("any" :> CidrText(0, 0, 0, 0, 0))
    @@ ("loopback" :> CidrText(127, 0, 0, 0, 8))
    @@ ("private-a" :> CidrText(10, 0, 0, 0, 8))
    @@ ("private-b" :> CidrText(172, 16, 0, 0, 12))
    @@ ("private-c" :> CidrText(192, 168, 0, 0, 16))
    @@ ("test-net-1" :> CidrText(192, 0, 2, 0, 24))
    @@ ("test-net-2" :> CidrText(198, 51, 100, 0, 24))
    @@ ("test-net-3" :> CidrText(203, 0, 113, 0, 24))
    @@ ("link-local" :> CidrText(169, 254, 0, 0, 16))
    @@ ("multicast" :> CidrText(224, 0, 0, 0, 4))

\* texts of the form `o.o.o.o/p` with the greatest octets and prefix
\* lengths the pattern lets through
WideCidrs ==
  {CidrText(o, o, o, o, p) : o \in {255, 256, 999}, p \in {0, 31, 32, 33, 64, 99}}

\* texts that are not of the form `o1.o2.o3.o4/p`: a part missing, empty,
\* too long or not of digits, and text before or after
MalformedCidrs ==
  LET good == CidrText(1, 2, 3, 4, 8)
  IN {<<>>,
      SubSeq(good, 1, 7), SubSeq(good, 1, 8), SubSeq(good, 3, 9),
      Join(<<ToString10(1), <<>>, ToString10(3), ToString10(4)>>, ".") \o <<"/", "8">>,
      CidrText(1000, 2, 3, 4, 8), CidrText(1, 2, 3, 1000, 8), CidrText(1, 2, 3, 4, 100),
      <<"5", ".">> \o good, good \o <<"/", "9">>,
      <<"a">> \o Tail(good), <<"-">> \o good, <<" ">> \o good,
      good \o <<" ">>, good \o <<"\n">>, SubSeq(good, 1, 7) \o <<"-", "8">>,
      SubSeq(good, 1, 8) \o <<"x">>}

\* the test with up to three digits let through after the "/"
cidrPatternLong(cidrBlock) ==
  LET parts == Split(cidrBlock, "/")
  IN /\ Len(parts) = 2
     /\ IsDigitRun(parts[2], 1, 3)
     /\ LET groups == Split(parts[1], ".")
        IN /\ Len(groups) = 4
           /\ \A i \in 1..4 : IsDigitRun(groups[i], 1, 3)

\* /^\d{1,3}\.\d{1,3}\.\d{1,3}\.\d{1,3}\/\d{1,2}$/.test(cidrBlock)
cidrPattern(cidrBlock) ==
  LET parts == Split(cidrBlock, "/")
  IN /\ Len(parts) = 2
     /\ IsDigitRun(parts[2], 1, 2)
     /\ LET groups == Split(parts[1], ".")
        IN /\ Len(groups) = 4
           /\ \A i \in 1..4 : IsDigitRun(groups[i], 1, 3)

\* this.faker.number.int(subnetMask): int with {max: subnetMask}, min 0
\* and multipleOf 1, on a 32-bit unsigned operand.  delta = max + 1 is a
\* power of two here and effectiveMin is 0, so real * delta + effectiveMin
\* is exact and only the floor remains.
intOfWord(max, real) ==
  LET effectiveMin == WordOf(0)
      effectiveMax == max
  IN IF effectiveMin = effectiveMax THEN [word |-> effectiveMin, draws |-> 0]
     ELSE LET delta == AddSmall(WordDigits(effectiveMax), 1)
          IN [word |-> DigitsWord(FloorDivSmall(MulSmall(delta, real[1], 0), real[2])),
              draws |-> 1]

\* 0xffffffff >>> Number.parseInt(subnet)
subnetMaskOf(subnet) == ShiftRightU(AllOnes, ParseDigits(subnet))

\* (rawIp1 << 24) | (rawIp2 << 16) | (rawIp3 << 8) | rawIp4
rawIpOf(ipText) ==
  LET raw == [i \in 1..4 |-> WordOf(ParseDigits(Split(ipText, ".")[i]))]
  IN BitOr(BitOr(BitOr(ShiftLeft(raw[1], 24), ShiftLeft(raw[2], 16)),
                 ShiftLeft(raw[3], 8)), raw[4])

\* the four shifted words joined without being cut down to a byte
dottedWhole(ip) ==
  Join(<<ToString10(ValueOf(ShiftRightU(ip, 24))),
         ToString10(ValueOf(ShiftRightU(ip, 16))),
         ToString10(ValueOf(ShiftRightU(ip, 8))),
         ToString10(ValueOf(ip))>>, ".")

\* [(ip >>> 24) & 0xff, (ip >>> 16) & 0xff, (ip >>> 8) & 0xff, ip & 0xff].join('.')
dotted(ip) ==
  Join(<<ToString10(ValueOf(BitAnd(ShiftRightU(ip, 24), WordOf(255)))),
         ToString10(ValueOf(BitAnd(ShiftRightU(ip, 16), WordOf(255)))),
         ToString10(ValueOf(BitAnd(ShiftRightU(ip, 8), WordOf(255)))),
         ToString10(ValueOf(BitAnd(ip, WordOf(255))))>>, ".")

\* options.network defaults to 'any', options.cidrBlock to ipv4Networks[network]
cidrBlockOf(options) ==
  Default(options.cidrBlock, ipv4Networks[Default(options.network, "any")])

\* the address kept as it was written, host bits and all
networkIpUnmasked(rawIp, subnetMask) == rawIp

\* rawIp & ~subnetMask
networkIpOf(rawIp, subnetMask) == BitAnd(rawIp, BitNot(subnetMask))

ipv4(options, real) ==
  LET cidrBlock == cidrBlockOf(options)
  IN IF ~cidrPattern(cidrBlock) THEN Throw("InvalidArgument")
     ELSE LET ipText == Split(cidrBlock, "/")[1]
              subnet == Split(cidrBlock, "/")[2]
              subnetMask == subnetMaskOf(subnet)
              rawIp == rawIpOf(ipText)
              networkIp == networkIpOf(rawIp, subnetMask)
              hostOffset == intOfWord(subnetMask, real)
              ip == BitOr(networkIp, hostOffset.word)
          IN ReturnText(dotted(ip), hostOffset.draws)

\* ---------------------------------------------------- NumberModule.bigInt
BigAbs == 5       \* |min|, |max| <= BigAbs
BigMul == 3       \* multipleOf <= BigMul
BigNums == (-BigAbs)..BigAbs
BigMuls == (-1)..BigMul

\* bigint a / b and a % b for b > 0: the quotient is truncated towards
\* zero and the remainder has the sign of the dividend
BigDiv(a, b) == IF a >= 0 THEN a \div b ELSE -((-a) \div b)
BigRem(a, b) == a - b * BigDiv(a, b)

\* min / multipleOf without the correction of the remainder
bigEffectiveMinTruncated(min, multipleOf) == BigDiv(min, multipleOf)

\* min / multipleOf + (min % multipleOf > 0n ? 1n : 0n)
bigEffectiveMin(min, multipleOf) ==
  BigDiv(min, multipleOf) + (IF BigRem(min, multipleOf) > 0 THEN 1 ELSE 0)

\* max / multipleOf without the correction of the remainder
bigEffectiveMaxTruncated(max, multipleOf) == BigDiv(max, multipleOf)

\* max / multipleOf - (max % multipleOf < 0n ? 1n : 0n)
bigEffectiveMax(max, multipleOf) ==
  BigDiv(max, multipleOf) - (IF BigRem(max, multipleOf) < 0 THEN 1 ELSE 0)

\* effectiveMax - effectiveMin + 1n
bigDeltaOf(effectiveMin, effectiveMax) == effectiveMax - effectiveMin + 1

\* the checks with multipleOf looked at before the range
bigIntEarlyStrideFirst(min, max, multipleOf) ==
  IF multipleOf <= 0 THEN "InvalidArgument"
  ELSE IF max < min THEN "InvalidRange"
  ELSE IF bigEffectiveMin(min, multipleOf) = bigEffectiveMax(max, multipleOf)
    THEN "collapsed"
  ELSE IF bigEffectiveMax(max, multipleOf) < bigEffectiveMin(min, multipleOf)
    THEN "RangeExhausted"
  ELSE ""

\* the checks made before the source of digits is used: the error thrown,
\* "collapsed" when effectiveMin === effectiveMax, "" when a digit string
\* is needed
bigIntEarly(min, max, multipleOf) ==
  IF max < min THEN "InvalidRange"
  ELSE IF multipleOf <= 0 THEN "InvalidArgument"
  ELSE IF bigEffectiveMin(min, multipleOf) = bigEffectiveMax(max, multipleOf)
    THEN "collapsed"
  ELSE IF bigEffectiveMax(max, multipleOf) < bigEffectiveMin(min, multipleOf)
    THEN "RangeExhausted"
  ELSE ""

\* the requests with the length taken from delta - 1, the greatest offset
bigIntRequestsOfOffset(min, max, multipleOf) ==
  IF bigIntEarly(min, max, multipleOf) # "" THEN <<>>
  ELSE <<[length |-> Len(ToString10(bigDeltaOf(bigEffectiveMin(min, multipleOf),
                                             bigEffectiveMax(max, multipleOf)) - 1)),
          allowLeadingZeros |-> TRUE]>>

\* the requests made to faker.string.numeric: none, or one for
\* delta.toString(10).length digits with leading zeros allowed
bigIntRequests(min, max, multipleOf) ==
  IF bigIntEarly(min, max, multipleOf) # "" THEN <<>>
  ELSE <<[length |-> Len(ToString10(bigDeltaOf(bigEffectiveMin(min, multipleOf),
                                             bigEffectiveMax(max, multipleOf)))),
          allowLeadingZeros |-> TRUE]>>

\* numeric is the text returned by faker.string.numeric when it is asked
bigInt(min, max, multipleOf, numeric) ==
  LET early == bigIntEarly(min, max, multipleOf)
      effectiveMin == bigEffectiveMin(min, multipleOf)
      effectiveMax == bigEffectiveMax(max, multipleOf)
  IN IF early = "collapsed" THEN Return(effectiveMin * multipleOf, 0)
     ELSE IF early # "" THEN Throw(early)
     ELSE LET delta == bigDeltaOf(effectiveMin, effectiveMax)
              offset == ParseDigits(numeric) % delta
          IN Return((effectiveMin + offset) * multipleOf, 0)

\* faker.string.numeric({length, allowLeadingZeros: true}): any string of
\* length decimal digits
Numeric(request) == [1..request.length -> {Digits[i] : i \in 1..10}]

\* ------------------------------------------------------------- session
\* the call last made: its operation and normalised arguments, the draw the
\* source held ready, the digit strings asked for and obtained, the outcome
NoCall == [op |-> "none", args |-> <<>>, real |-> <<0, 1>>, numeric |-> <<>>,
           out |-> Throw("")]

Called(op, args, real, out) ==
  [op |-> op, args |-> args, real |-> real, numeric |-> <<>>, out |-> out]

NoRunB == [pos |-> 0, last |-> NoCall, inserted |-> 0]
NoSweep == [op |-> "none", args |-> <<>>, k |-> 0, outs |-> <<>>]

Init ==
  /\ seed \in Seeds
  /\ pos = 0
  /\ last = NoCall
  /\ runB = NoRunB
  /\ sweep = NoSweep

\* faker.number.int(options), called by an idle caller
IntCall ==
  /\ last.op = "none"
  /\ \E mn \in Opt(Nums), mx \in Nums, mo \in Opt(Muls), isNumber \in BOOLEAN :
    LET options == IF isNumber THEN Bare(mx) ELSE Options(mn, <<mx>>, mo)
        real == Real(seed, pos)
        out == int(options, real)
    IN /\ isNumber => (mn = <<>> /\ mo = <<>>)
       /\ pos + out.draws <= MaxDraws
       /\ pos' = pos + out.draws
       /\ last' = Called("int", [min |-> minOf(options), max |-> maxOf(options),
                                 multipleOf |-> multipleOfOf(options)], real, out)
       /\ UNCHANGED <<seed, runB, sweep>>

\* faker.internet.ipv4(options), options one of {}, {cidrBlock}, {network}
Ipv4Call ==
  /\ last.op = "none"
  /\ \E options \in
        {[cidrBlock |-> <<>>, network |-> <<>>]}
          \cup {[cidrBlock |-> <<>>, network |-> <<n>>] : n \in NetworkNames}
          \cup {[cidrBlock |-> <<CidrText(o[1], o[2], o[3], o[4], p)>>, network |-> <<>>] :
                  o \in Octets \X Octets \X Octets \X Octets, p \in 0..MaxPrefix}
          \cup {[cidrBlock |-> <<text>>, network |-> <<>>] :
                  text \in MalformedCidrs \cup WideCidrs} :
    LET real == Real(seed, pos)
        out == ipv4(options, real)
    IN /\ pos + out.draws <= MaxDraws
       /\ pos' = pos + out.draws
       /\ last' = Called("ipv4", [cidrBlock |-> cidrBlockOf(options),
                                  network |-> options.network], real, out)
       /\ UNCHANGED <<seed, runB, sweep>>

\* faker.number.bigInt({min, max, multipleOf}), integer arguments
BigIntCall ==
  /\ last.op = "none"
  /\ \E min \in BigNums, max \in BigNums, multipleOf \in BigMuls :
       LET requests == bigIntRequests(min, max, multipleOf)
       IN \E numeric \in (IF requests = <<>> THEN {<<>>} ELSE Numeric(requests[1])) :
            last' = [op |-> "bigInt",
                     args |-> [min |-> min, max |-> max, multipleOf |-> multipleOf],
                     real |-> <<0, 1>>,
                     numeric |-> [i \in 1..Len(requests) |->
                                    [request |-> requests[i], text |-> numeric]],
                     out |-> bigInt(min, max, multipleOf, numeric)]
  /\ UNCHANGED <<seed, pos, runB, sweep>>

\* the caller takes the returned value (or catches the error) and is ready
\* for its next call; the source keeps its position
Resume ==
  /\ last.op # "none"
  /\ last' = NoCall
  /\ UNCHANGED <<seed, pos, runB, sweep>>

Next == IntCall \/ Ipv4Call \/ BigIntCall \/ Resume

Spec == Init /\ [][Next]_vars

\* ------------------------------------------- two sessions on one seed
\* Session A (pos, last) and session B (runB) make the same calls on equal
\* seeds; session B makes, in between, extra int calls whose range
\* collapses.
BothIntCall ==
  /\ last.op = "none"
  /\ \E mn \in Opt(Nums), mx \in Nums, mo \in Opt(Muls) :
    LET options == Options(mn, <<mx>>, mo)
        args == [min |-> minOf(options), max |-> maxOf(options),
                 multipleOf |-> multipleOfOf(options)]
        outA == int(options, Real(seed, pos))
        outB == int(options, Real(seed, runB.pos))
    IN /\ pos + outA.draws <= MaxDraws
       /\ runB.pos + outB.draws <= MaxDraws
       /\ pos' = pos + outA.draws
       /\ last' = Called("int", args, Real(seed, pos), outA)
       /\ runB' = [runB EXCEPT !.pos = @ + outB.draws,
                               !.last = Called("int", args, Real(seed, runB.pos), outB)]
       /\ UNCHANGED <<seed, sweep>>

BothIpv4Call ==
  /\ last.op = "none"
  /\ \E options \in
        {[cidrBlock |-> <<>>, network |-> <<>>]}
          \cup {[cidrBlock |-> <<>>, network |-> <<n>>] : n \in NetworkNames} :
    LET args == [cidrBlock |-> cidrBlockOf(options)]
        outA == ipv4(options, Real(seed, pos))
        outB == ipv4(options, Real(seed, runB.pos))
    IN /\ pos + outA.draws <= MaxDraws
       /\ runB.pos + outB.draws <= MaxDraws
       /\ pos' = pos + outA.draws
       /\ last' = Called("ipv4", args, Real(seed, pos), outA)
       /\ runB' = [runB EXCEPT !.pos = @ + outB.draws,
                               !.last = Called("ipv4", args, Real(seed, runB.pos), outB)]
       /\ UNCHANGED <<seed, sweep>>

\* session B alone calls int on a range that collapses to one value
InsertCollapsedCall ==
  /\ last.op = "none"
  /\ runB.inserted < MaxInserted
  /\ \E mn \in Opt(Nums), mx \in Nums, mo \in Opt(Muls) :
    LET options == Options(mn, <<mx>>, mo)
        outB == int(options, Real(seed, runB.pos))
    IN /\ IsInteger(multipleOfOf(options)) /\ multipleOfOf(options) > 0
       /\ Ceil(minOf(options), multipleOfOf(options))
            = Floor(maxOf(options), multipleOfOf(options))
       /\ runB.pos + outB.draws <= MaxDraws
       /\ runB' = [runB EXCEPT !.pos = @ + outB.draws, !.inserted = @ + 1]
       /\ UNCHANGED <<seed, pos, last, sweep>>

ResumeBoth ==
  /\ last.op # "none"
  /\ last' = NoCall
  /\ runB' = [runB EXCEPT !.last = NoCall]
  /\ UNCHANGED <<seed, pos, sweep>>

NextInsert == BothIntCall \/ BothIpv4Call \/ InsertCollapsedCall \/ ResumeBoth

SpecInsert == Init /\ [][NextInsert]_vars

\* ------------------------------------------------- sweeping the source
\* one call, made once for every value its source of randomness can give:
\* int on the draws k / (SweepK * delta), bigInt on the 10^L digit strings
\* of the length L it asks for
PadLeft(text, length) ==
  [i \in 1..length |-> IF i <= length - Len(text) THEN "0"
                       ELSE text[i - (length - Len(text))]]
RECURSIVE Pow10(_)
Pow10(n) == IF n = 0 THEN 1 ELSE 10 * Pow10(n - 1)

SweepIntSteps(args) ==
  SweepK * (Floor(args.max, args.multipleOf) - Ceil(args.min, args.multipleOf) + 1)

\* the bounds of a swept int call: those of Nums, and the same a long way
\* from zero, where the numbers lie one apart
SweepNums == Nums \cup {(RDen \div 2) * Scale + x : x \in Nums}
SweepBigIntSteps(args) ==
  Pow10(bigIntRequests(args.min, args.max, args.multipleOf)[1].length)

InitSweep ==
  /\ seed = 0
  /\ pos = 0
  /\ last = NoCall
  /\ runB = NoRunB
  /\ sweep \in
       {[op |-> "int", args |-> [min |-> mn, max |-> mx, multipleOf |-> mo],
         k |-> 0, outs |-> <<>>] :
          mn \in SweepNums, mx \in SweepNums,
          mo \in {m \in Muls : IsInteger(m) /\ m > 0}}
       \cup
       {[op |-> "bigInt", args |-> [min |-> mn, max |-> mx, multipleOf |-> mo],
         k |-> 0, outs |-> <<>>] :
          mn \in BigNums, mx \in BigNums, mo \in {m \in BigMuls : m > 0}}
  /\ sweep.op = "int" =>
       /\ Ceil(sweep.args.min, sweep.args.multipleOf)
            < Floor(sweep.args.max, sweep.args.multipleOf)
       /\ sweep.args.max - sweep.args.min <= 2 * MaxAbs * Scale
  /\ sweep.op = "bigInt" =>
       bigIntRequests(sweep.args.min, sweep.args.max, sweep.args.multipleOf) # <<>>

SweepInt ==
  /\ sweep.op = "int"
  /\ sweep.k < SweepIntSteps(sweep.args)
  /\ LET real == <<sweep.k, SweepIntSteps(sweep.args)>>
         out == intRange(sweep.args.min, sweep.args.max, sweep.args.multipleOf, real)
     IN sweep' = [sweep EXCEPT !.k = @ + 1, !.outs = Append(@, out.value)]
  /\ UNCHANGED <<seed, pos, last, runB>>

SweepBigInt ==
  /\ sweep.op = "bigInt"
  /\ sweep.k < SweepBigIntSteps(sweep.args)
  /\ LET request == bigIntRequests(sweep.args.min, sweep.args.max,
                                   sweep.args.multipleOf)[1]
         numeric == PadLeft(ToString10(sweep.k), request.length)
         out == bigInt(sweep.args.min, sweep.args.max, sweep.args.multipleOf, numeric)
     IN sweep' = [sweep EXCEPT !.k = @ + 1, !.outs = Append(@, out.value)]
  /\ UNCHANGED <<seed, pos, last, runB>>

NextSweep == SweepInt \/ SweepBigInt

SpecSweep == InitSweep /\ [][NextSweep]_vars

\* ---------------------------------------------------- NumberModule.float
MaxFractionDigits == 2
\* options.multipleOf and options.fractionDigits, counts of 1/Scale
FloatMuls == (-1)..(2 * Scale)
FractionDigits == {-Scale, 1} \cup {d * Scale : d \in 0..MaxFractionDigits}

\* the number written x / Scale
NumberOf(x) == FromRatio(x, Scale)

\* 10 ** -fractionDigits, fractionDigits a non-negative integer
TenToMinus(digits) == FromRatio(1, Pow10(digits))

\* this.int({ min, max }) on two numbers: multipleOf is 1, and the unit
\* counted is the last place of the finer of the two
intOfNumbers(min, max, real) ==
  LET e == IF min[2] < max[2] THEN (IF min[2] < 0 THEN min[2] ELSE 0)
           ELSE (IF max[2] < 0 THEN max[2] ELSE 0)
      unit == 2 ^ (-e)
      out == intEffective(min[1] * (2 ^ (min[2] - e)), max[1] * (2 ^ (max[2] - e)),
                          unit, real)
  IN IF out.kind = "value" THEN [out EXCEPT !.value = @ \div unit] ELSE out

\* the checks on fractionDigits without the isInteger test
checkFractionDigitsNoInteger(fractionDigits) ==
  IF fractionDigits < 0 THEN "InvalidArgument" ELSE ""

\* "fractionDigits should be an integer." and "fractionDigits should be
\* greater than or equal to 0." (both InvalidArgument); "" if fine
checkFractionDigits(fractionDigits) ==
  IF ~IsInteger(fractionDigits) THEN "InvalidArgument"
  ELSE IF fractionDigits < 0 THEN "InvalidArgument"
  ELSE ""

\* the checks with the conflict of options looked at before the range
floatEarlyConflictFirst(min, max, originalMultipleOf, fractionDigits) ==
  IF fractionDigits # <<>> /\ originalMultipleOf # <<>> THEN "ConflictingOptions"
  ELSE IF FLess(max, min) THEN "InvalidRange"
  ELSE IF fractionDigits # <<>> THEN checkFractionDigits(fractionDigits[1])
  ELSE ""

\* the checks made before multipleOf is looked at: "Max ... should be
\* greater than min ..." (InvalidRange), "multipleOf and fractionDigits
\* cannot be set at the same time." (ConflictingOptions), the checks of
\* fractionDigits; "" if fine
floatEarly(min, max, originalMultipleOf, fractionDigits) ==
  IF FLess(max, min) THEN "InvalidRange"
  ELSE IF fractionDigits # <<>> /\ originalMultipleOf # <<>> THEN "ConflictingOptions"
  ELSE IF fractionDigits # <<>> THEN checkFractionDigits(fractionDigits[1])
  ELSE ""

\* Number.isInteger(Math.log10(multipleOf)) for multipleOf < 1: multipleOf
\* is the number written 10^-n
Log10IsInteger(multipleOf) ==
  \E n \in 1..(MaxFractionDigits + 1) : multipleOf = TenToMinus(n)
LogPrecision(multipleOf) ==
  -(CHOOSE n \in 1..(MaxFractionDigits + 1) : multipleOf = TenToMinus(n))

\* multipleOf < 1 && Number.isInteger(logPrecision) ? 10 ** -logPrecision
\*                                                   : 1 / multipleOf
factorOf(multipleOf) ==
  IF FLess(multipleOf, FromInt(1)) /\ Log10IsInteger(multipleOf)
    THEN FromInt(Pow10(-LogPrecision(multipleOf)))
  ELSE FDiv(FromInt(1), multipleOf)

\* the stride path: int over [min * factor, max * factor], then / factor
floatStride(min, max, multipleOf, real) ==
  IF FLessEq(multipleOf, FromInt(0)) THEN Throw("InvalidArgument")
  ELSE LET factor == factorOf(multipleOf)
           out == intOfNumbers(FMul(min, factor), FMul(max, factor), real)
       IN IF out.kind = "value"
            THEN Return(FDiv(FromInt(out.value), factor), out.draws)
          ELSE out

\* real * (max - min) + min
floatDraw(min, max, real) ==
  Return(FAdd(FMul(FromRatio(real[1], real[2]), FSub(max, min)), min), 1)

\* float(options): a bare number is {max: options}; min defaults to 0 and
\* max to 1; multipleOf defaults to 10 ** -fractionDigits when
\* fractionDigits is supplied
FloatBare(n) ==
  [isNumber |-> TRUE, min |-> <<>>, max |-> <<n>>, multipleOf |-> <<>>,
   fractionDigits |-> <<>>]
FloatOptions(mn, mx, mo, fd) ==
  [isNumber |-> FALSE, min |-> mn, max |-> mx, multipleOf |-> mo,
   fractionDigits |-> fd]
floatMinOf(options) == Default(options.min, 0)
floatMaxOf(options) == Default(options.max, 1 * Scale)

float(options, real) ==
  LET min == NumberOf(floatMinOf(options))
      max == NumberOf(floatMaxOf(options))
      early == floatEarly(min, max, options.multipleOf, options.fractionDigits)
  IN IF early # "" THEN Throw(early)
     ELSE IF options.multipleOf # <<>>
       THEN floatStride(min, max, NumberOf(options.multipleOf[1]), real)
     ELSE IF options.fractionDigits # <<>>
       THEN floatStride(min, max, TenToMinus(options.fractionDigits[1] \div Scale), real)
     ELSE floatDraw(min, max, real)

\* the options float is called with: no stride, one of the two, or both
StrideOptions ==
  {<<mo, <<>>>> : mo \in Opt(FloatMuls)}
    \cup {<<<<>>, fd>> : fd \in Opt(FractionDigits)}
    \cup {<<<<mo>>, <<fd>>>> : mo \in {0, Scale}, fd \in {-Scale, Scale}}

\* faker.number.float(options), called by an idle caller
FloatCall ==
  /\ last.op = "none"
  /\ \E mn \in Opt(Nums), mx \in Opt(Nums), stride \in StrideOptions,
        isNumber \in BOOLEAN :
    LET options == IF isNumber THEN FloatBare(mx[1])
                   ELSE FloatOptions(mn, mx, stride[1], stride[2])
        real == Real(seed, pos)
        out == float(options, real)
    IN /\ isNumber => (mn = <<>> /\ mx # <<>> /\ stride = <<<<>>, <<>>>>)
       /\ pos + out.draws <= MaxDraws
       /\ pos' = pos + out.draws
       /\ last' = Called("float", [min |-> floatMinOf(options),
                                   max |-> floatMaxOf(options),
                                   multipleOf |-> options.multipleOf,
                                   fractionDigits |-> options.fractionDigits],
                         real, out)
       /\ UNCHANGED <<seed, runB, sweep>>

NextFloat == FloatCall \/ Resume

SpecFloat == Init /\ [][NextFloat]_vars

\* ------------------------------- NumberModule.binary, octal and hex
RadixDigits == <<"0", "1", "2", "3", "4", "5", "6", "7", "8", "9",
                 "a", "b", "c", "d", "e", "f">>

\* Number.prototype.toString(radix) of an integer: lowercase digits, no
\* prefix, a leading "-" for a negative number
RECURSIVE NatToString(_, _)
NatToString(n, radix) ==
  IF n < radix THEN <<RadixDigits[n + 1]>>
  ELSE NatToString(n \div radix, radix) \o <<RadixDigits[(n % radix) + 1]>>
ToStringRadix(n, radix) ==
  IF n < 0 THEN <<"-">> \o NatToString(-n, radix) ELSE NatToString(n, radix)

\* options of binary, octal, hex and romanNumeral: a bare number is
\* {max: options}
RangeBare(n) == [isNumber |-> TRUE, min |-> <<>>, max |-> <<n>>]
RangeOptions(mn, mx) == [isNumber |-> FALSE, min |-> mn, max |-> mx]

\* the rendering with a draw taken besides those of int
renderedAfterDraw(options, defaultMax, radix, real) ==
  LET out == intRange(Default(options.min, 0),
                      Default(options.max, defaultMax * Scale), 1 * Scale, real)
  IN IF out.kind = "value"
       THEN ReturnText(ToStringRadix(out.value \div Scale, radix), out.draws + 1)
     ELSE out

\* this.int({ max, min }).toString(radix), min defaulting to 0 and max to
\* defaultMax
rendered(options, defaultMax, radix, real) ==
  LET out == intRange(Default(options.min, 0),
                      Default(options.max, defaultMax * Scale), 1 * Scale, real)
  IN IF out.kind = "value"
       THEN ReturnText(ToStringRadix(out.value \div Scale, radix), out.draws)
     ELSE out

binary(options, real) == rendered(options, 1, 2, real)
octal(options, real) == rendered(options, 7, 8, real)
hex(options, real) == rendered(options, 15, 16, real)

\* ----------------------------------------- NumberModule.romanNumeral
DEFAULT_MIN == 1
DEFAULT_MAX == 3999

\* the table without its last subtractive pair
lookupWithoutIV ==
  <<[k |-> <<"M">>, v |-> 1000], [k |-> <<"C", "M">>, v |-> 900],
    [k |-> <<"D">>, v |-> 500], [k |-> <<"C", "D">>, v |-> 400],
    [k |-> <<"C">>, v |-> 100], [k |-> <<"X", "C">>, v |-> 90],
    [k |-> <<"L">>, v |-> 50], [k |-> <<"X", "L">>, v |-> 40],
    [k |-> <<"X">>, v |-> 10], [k |-> <<"I", "X">>, v |-> 9],
    [k |-> <<"V">>, v |-> 5], [k |-> <<"I">>, v |-> 1]>>

lookup ==
  <<[k |-> <<"M">>, v |-> 1000], [k |-> <<"C", "M">>, v |-> 900],
    [k |-> <<"D">>, v |-> 500], [k |-> <<"C", "D">>, v |-> 400],
    [k |-> <<"C">>, v |-> 100], [k |-> <<"X", "C">>, v |-> 90],
    [k |-> <<"L">>, v |-> 50], [k |-> <<"X", "L">>, v |-> 40],
    [k |-> <<"X">>, v |-> 10], [k |-> <<"I", "X">>, v |-> 9],
    [k |-> <<"V">>, v |-> 5], [k |-> <<"I", "V">>, v |-> 4],
    [k |-> <<"I">>, v |-> 1]>>

\* String.prototype.repeat
RECURSIVE Repeat(_, _)
Repeat(k, count) == IF count = 0 THEN <<>> ELSE k \o Repeat(k, count - 1)

\* for (const [k, v] of lookup) { result += k.repeat(Math.floor(num / v));
\* num %= v; } from entry i on: the text appended and the num left over
RECURSIVE encodeFrom(_, _)
encodeFrom(num, i) ==
  IF i > Len(lookup) THEN [result |-> <<>>, num |-> num]
  ELSE LET rest == encodeFrom(num % lookup[i].v, i + 1)
       IN [result |-> Repeat(lookup[i].k, num \div lookup[i].v) \o rest.result,
           num |-> rest.num]

\* a FakerError of romanNumeral, with the fixed words of its message
ThrowMessage(e, message) == [Throw(e) EXCEPT !.text = message]
MinMessage == <<"Min value ", " should be 1 or greater.">>
MaxMessage == <<"Max value ", " should be 3999 or less.">>

\* the two checks of romanNumeral with the one on max made first
romanEarlyMaxFirst(min, max) ==
  IF max > DEFAULT_MAX * Scale THEN ThrowMessage("InvalidArgument", MaxMessage)
  ELSE IF min < DEFAULT_MIN * Scale THEN ThrowMessage("InvalidArgument", MinMessage)
  ELSE Throw("")

\* `Min value ${min} should be 1 or greater.` then `Max value ${max}
\* should be 3999 or less.`; Throw("") if both are fine
romanEarly(min, max) ==
  IF min < DEFAULT_MIN * Scale THEN ThrowMessage("InvalidArgument", MinMessage)
  ELSE IF max > DEFAULT_MAX * Scale THEN ThrowMessage("InvalidArgument", MaxMessage)
  ELSE Throw("")

romanMinOf(options) == Default(options.min, DEFAULT_MIN * Scale)
romanMaxOf(options) == Default(options.max, DEFAULT_MAX * Scale)

romanNumeral(options, real) ==
  LET min == romanMinOf(options)
      max == romanMaxOf(options)
  IN IF romanEarly(min, max).error # "" THEN romanEarly(min, max)
     ELSE LET out == intRange(min, max, 1 * Scale, real)
          IN IF out.kind = "value"
               THEN ReturnText(encodeFrom(out.value \div Scale, 1).result, out.draws)
             ELSE out

\* ------------------------------------------- a session of encoders
\* bounds passed to binary, octal and hex: around zero, around the last
\* one-digit number of each radix, and one that is not an integer
EncodeNums ==
  {x * Scale : x \in {-MaxAbs, 0, 1, MaxAbs, 7, 8, 15, 16}} \cup {Scale + 1}
\* bounds passed to romanNumeral: around DEFAULT_MIN and DEFAULT_MAX
RomanNums ==
  {x * Scale : x \in {DEFAULT_MIN - 1, DEFAULT_MIN, MaxAbs, 1994,
                      DEFAULT_MAX - 1, DEFAULT_MAX, DEFAULT_MAX + 1}}
    \cup {Scale + 1}

\* the options a call is made with: a bare number, or {min, max} with
\* either of them left out
RangeCalls(S) ==
  {RangeBare(n) : n \in S} \cup {RangeOptions(mn, mx) : mn \in Opt(S), mx \in Opt(S)}

\* faker.number.binary(options), called by an idle caller
BinaryCall ==
  /\ last.op = "none"
  /\ \E options \in RangeCalls(EncodeNums) :
    LET real == Real(seed, pos)
        out == binary(options, real)
    IN /\ pos + out.draws <= MaxDraws
       /\ pos' = pos + out.draws
       /\ last' = Called("binary", options, real, out)
       /\ UNCHANGED <<seed, runB, sweep>>

\* faker.number.octal(options), called by an idle caller
OctalCall ==
  /\ last.op = "none"
  /\ \E options \in RangeCalls(EncodeNums) :
    LET real == Real(seed, pos)
        out == octal(options, real)
    IN /\ pos + out.draws <= MaxDraws
       /\ pos' = pos + out.draws
       /\ last' = Called("octal", options, real, out)
       /\ UNCHANGED <<seed, runB, sweep>>

\* faker.number.hex(options), called by an idle caller
HexCall ==
  /\ last.op = "none"
  /\ \E options \in RangeCalls(EncodeNums) :
    LET real == Real(seed, pos)
        out == hex(options, real)
    IN /\ pos + out.draws <= MaxDraws
       /\ pos' = pos + out.draws
       /\ last' = Called("hex", options, real, out)
       /\ UNCHANGED <<seed, runB, sweep>>

\* faker.number.romanNumeral(options), called by an idle caller
RomanNumeralCall ==
  /\ last.op = "none"
  /\ \E options \in RangeCalls(RomanNums) :
    LET real == Real(seed, pos)
        out == romanNumeral(options, real)
    IN /\ pos + out.draws <= MaxDraws
       /\ pos' = pos + out.draws
       /\ last' = Called("romanNumeral",
                         [min |-> romanMinOf(options), max |-> romanMaxOf(options)],
                         real, out)
       /\ UNCHANGED <<seed, runB, sweep>>

NextEncode == BinaryCall \/ OctalCall \/ HexCall \/ RomanNumeralCall \/ Resume

SpecEncode == Init /\ [][NextEncode]_vars

\* ------------------------------- a session of all the operations
NextAll ==
  \/ IntCall \/ FloatCall \/ BigIntCall
  \/ BinaryCall \/ OctalCall \/ HexCall \/ RomanNumeralCall
  \/ Ipv4Call \/ Resume

SpecAll == Init /\ [][NextAll]_vars

\* ------------------------------- sweeping romanNumeral and ipv4
MaxHostBits == 3
\* the octets of a swept block, and its prefix lengths: blocks of 2 to
\* 2 ^ MaxHostBits addresses
SweepOctets == {10, 255}
SweepPrefixes == (32 - MaxHostBits)..31
\* a swept ipv4 call sees 2 ^ (SweepK - 1) equally spaced draws for every
\* host offset
SweepIpv4Steps(args) ==
  (2 ^ (SweepK - 1)) * (2 ^ (32 - ParseDigits(Split(args.cidrBlock, "/")[2])))

\* the encoding loop on every num from DEFAULT_MIN to DEFAULT_MAX, and
\* ipv4 on every draw of a small block
InitSweepCodes ==
  /\ seed = 0
  /\ pos = 0
  /\ last = NoCall
  /\ runB = NoRunB
  /\ sweep \in
       {[op |-> "romanNumeral", args |-> [num |-> DEFAULT_MIN], k |-> 0,
         outs |-> <<>>]}
       \cup
       {[op |-> "ipv4", args |-> [cidrBlock |-> CidrText(o[1], o[2], o[3], o[4], p)],
         k |-> 0, outs |-> <<>>] :
          o \in SweepOctets \X SweepOctets \X SweepOctets \X SweepOctets,
          p \in SweepPrefixes}

SweepRomanNumeral ==
  /\ sweep.op = "romanNumeral"
  /\ DEFAULT_MIN + sweep.k <= DEFAULT_MAX
  /\ sweep' = [sweep EXCEPT !.args = [num |-> DEFAULT_MIN + sweep.k],
                            !.k = @ + 1,
                            !.outs = <<encodeFrom(DEFAULT_MIN + sweep.k, 1)>>]
  /\ UNCHANGED <<seed, pos, last, runB>>

SweepIpv4 ==
  /\ sweep.op = "ipv4"
  /\ sweep.k < SweepIpv4Steps(sweep.args)
  /\ LET real == <<sweep.k, SweepIpv4Steps(sweep.args)>>
         out == ipv4([cidrBlock |-> <<sweep.args.cidrBlock>>, network |-> <<>>], real)
     IN sweep' = [sweep EXCEPT !.k = @ + 1, !.outs = Append(@, out.text)]
  /\ UNCHANGED <<seed, pos, last, runB>>

NextSweepCodes == SweepRomanNumeral \/ SweepIpv4

SpecSweepCodes == InitSweepCodes /\ [][NextSweepCodes]_vars

\* ------------------------------------------- InternetModule.password
MaxLength == 2    \* options.length <= MaxLength
StackLimit == 4   \* calls of _password the call stack has room for

\* String.fromCodePoint(n) for n in 33..127; "GRAVE" stands for the
\* grave accent (code point 96), "DEL" for the character of code point 127
Ascii ==
  <<"!", "\"", "#", "$", "%", "&", "'", "(", ")", "*", "+", ",", "-",
    ".", "/", "0", "1", "2", "3", "4", "5", "6", "7", "8", "9", ":", ";",
    "<", "=", ">", "?", "@", "A", "B", "C", "D", "E", "F", "G", "H", "I",
    "J", "K", "L", "M", "N", "O", "P", "Q", "R", "S", "T", "U", "V", "W",
    "X", "Y", "Z", "[", "\\", "]", "^", "_", "GRAVE", "a", "b", "c", "d",
    "e", "f", "g", "h", "i", "j", "k", "l", "m", "n", "o", "p", "q", "r",
    "s", "t", "u", "v", "w", "x", "y", "z", "{", "|", "}", "~", "DEL">>
fromCodePoint(n) == Ascii[n - 32]
codePointAt(c) == (CHOOSE i \in 1..Len(Ascii) : Ascii[i] = c) + 32

\* String.prototype.toLowerCase of one of these characters
toLowerCase(c) ==
  IF codePointAt(c) \in 65..90 THEN fromCodePoint(codePointAt(c) + 32) ELSE c

\* the character classes of the regular expressions vowel and consonant,
\* and of the patterns /\w/, /[A-Z]/ and /\s/
CharClass(pattern) ==
  IF pattern = "vowel" THEN
  {"a", "e", "i", "o", "u", "A", "E", "I", "O", "U"}
  ELSE IF pattern = "consonant" THEN
  {"b", "c", "d", "f", "g", "h", "j", "k", "l", "m", "n", "p", "q", "r",
   "s", "t", "v", "w", "x", "y", "z", "B", "C", "D", "F", "G", "H", "J",
   "K", "L", "M", "N", "P", "Q", "R", "S", "T", "V", "W", "X", "Y", "Z"}
  ELSE IF pattern = "\\w" THEN
    {fromCodePoint(n) : n \in (48..57) \cup (65..90) \cup {95} \cup (97..122)}
  ELSE IF pattern = "[A-Z]" THEN {fromCodePoint(n) : n \in 65..90}
  ELSE {" ", "\t", "\n"}

\* pattern.test(text): vowel and consonant end in $ and look at the last
\* character, the other patterns look for a character anywhere
test(pattern, text) ==
  IF pattern \in {"vowel", "consonant"}
    THEN text # <<>> /\ text[Len(text)] \in CharClass(pattern)
  ELSE \E i \in 1..Len(text) : text[i] \in CharClass(pattern)

\* pattern = consonant.test(prefix) ? vowel : consonant, if memorable
patternInForce(memorable, pattern, prefix) ==
  IF memorable THEN (IF test("consonant", prefix) THEN "vowel" ELSE "consonant")
  ELSE pattern

\* String.fromCodePoint(this.faker.number.int(94) + 33), in lower case if
\* memorable
candidate(memorable, real) ==
  LET n == (int(Bare(94 * Scale), real).value \div Scale) + 33
  IN IF memorable THEN toLowerCase(fromCodePoint(n)) ELSE fromCodePoint(n)

\* the candidate taken even if the pattern does not accept it
nextPrefixUntested(memorable, pattern, prefix, real) ==
  prefix \o <<candidate(memorable, real)>>

\* the prefix handed to the next call of _password: with the candidate if
\* the pattern in force accepts it, as it was if not
nextPrefix(memorable, pattern, prefix, real) ==
  IF test(patternInForce(memorable, pattern, prefix), <<candidate(memorable, real)>>)
    THEN prefix \o <<candidate(memorable, real)>>
  ELSE prefix

\* the draws a call may be given: the least, the greatest, and the middle
\* of the interval of some code points
CandidateCodes == {56, 65, 69, 95, 97, 98, 101, 122}
CandidateDraws ==
  {<<0, RDen>>, <<RDen - 1, RDen>>}
    \cup {<<2 * (n - 33) + 1, 2 * 95>> : n \in CandidateCodes}

\* a call of password in progress: the arguments of the call of _password
\* about to be made, the calls of _password on the stack, the draws taken
Pending(prefix, draws) ==
  [kind |-> "pending", value |-> 0, text |-> prefix, error |-> "", draws |-> draws]
PasswordOptions ==
  [length : 0..MaxLength, memorable : BOOLEAN, pattern : {"\\w", "[A-Z]", "\\s"},
   prefix : {<<>>, <<"b">>, <<"E">>, <<"b", "7">>}]

InitPassword ==
  /\ seed = 0
  /\ pos = 0
  /\ last = NoCall
  /\ runB = NoRunB
  /\ sweep = NoSweep

\* faker.internet.password(options): _password is called with the options
PasswordCall ==
  /\ last.op = "none"
  /\ pos <= MaxDraws
  /\ \E options \in PasswordOptions :
       last' = [op |-> "password", args |-> options, real |-> <<0, 1>>,
                numeric |-> <<>>, out |-> Pending(options.prefix, 0),
                pattern |-> options.pattern, frames |-> 1, from |-> pos]
  /\ UNCHANGED <<seed, pos, runB, sweep>>

\* _password finds prefix.length >= length and returns prefix, and so do
\* all the calls of _password below it
PasswordReturn ==
  /\ last.op = "password" /\ last.out.kind = "pending"
  /\ Len(last.out.text) >= last.args.length
  /\ last' = [last EXCEPT !.out = ReturnText(last.out.text, last.out.draws),
                          !.frames = 0]
  /\ UNCHANGED <<seed, pos, runB, sweep>>

\* _password takes a draw, makes its candidate and calls itself with the
\* pattern in force and the prefix, lengthened or not; every call stays on
\* the stack until the last one returns, and a call the stack has no room
\* for throws a RangeError
PasswordDraw ==
  /\ last.op = "password" /\ last.out.kind = "pending"
  /\ Len(last.out.text) < last.args.length
  /\ pos' = pos + 1
  /\ \E real \in CandidateDraws :
       IF last.frames = StackLimit
         THEN last' = [last EXCEPT !.real = real, !.frames = 0,
                         !.out = [Throw("RangeError") EXCEPT
                                    !.draws = last.out.draws + 1]]
       ELSE last' = [last EXCEPT
                       !.real = real,
                       !.frames = @ + 1,
                       !.pattern = patternInForce(last.args.memorable, @,
                                                  last.out.text),
                       !.out = Pending(nextPrefix(last.args.memorable, last.pattern,
                                                  last.out.text, real),
                                       last.out.draws + 1)]
  /\ UNCHANGED <<seed, runB, sweep>>

\* the last call of _password the stack has room for calls
\* this.faker.number.int, and the stack has no room for that call
PasswordOverflow ==
  /\ last.op = "password" /\ last.out.kind = "pending"
  /\ Len(last.out.text) < last.args.length
  /\ last.frames = StackLimit
  /\ last' = [last EXCEPT !.frames = 0,
                !.out = [Throw("RangeError") EXCEPT !.draws = last.out.draws]]
  /\ UNCHANGED <<seed, pos, runB, sweep>>

\* the caller takes the password, or catches the error
PasswordResume ==
  /\ last.op = "password" /\ last.out.kind # "pending"
  /\ last' = NoCall
  /\ UNCHANGED <<seed, pos, runB, sweep>>

NextPassword ==
  \/ PasswordCall \/ PasswordReturn \/ PasswordDraw \/ PasswordOverflow
  \/ PasswordResume

SpecPassword == InitPassword /\ [][NextPassword]_vars

\* a call of _password that can be made is made, and a source that is
\* asked again and again gives every draw again and again: the second
\* conjunct is SF_vars(PasswordDraw /\ last'.real = real) for every real,
\* all of which are enabled exactly when PasswordDraw is
SpecPasswordFair ==
  /\ SpecPassword
  /\ WF_vars(PasswordReturn \/ PasswordDraw \/ PasswordOverflow)
  /\ \/ <>[](~ENABLED <<PasswordDraw>>_vars)
     \/ \A real \in CandidateDraws : []<><<PasswordDraw /\ last'.real = real>>_vars

\* ------------------------------------------------------------ claims
IsIntCall == last.op = "int"
Returned == last.out.kind = "value"
Raised(e) == last.out.kind = "error" /\ last.out.error = e
ValidStride(m) == IsInteger(m) /\ m > 0

\* C1: every value int returns lies in [min, max] and is an integer
\* multiple of multipleOf, for negative and non-integer bounds and for
\* every draw; int returns exactly when multipleOf is a positive integer
\* and some multiple of it lies in [min, max].
C1_InclusiveBounds ==
  IsIntCall =>
    /\ Returned =>
         /\ last.args.min <= last.out.value
         /\ last.out.value <= last.args.max
         /\ ValidStride(last.args.multipleOf)
         /\ last.out.value % last.args.multipleOf = 0
    /\ Returned <=>
         /\ ValidStride(last.args.multipleOf)
         /\ \E k \in (-(MaxAbs * Scale))..(MaxAbs * Scale) :
              last.args.min <= k * last.args.multipleOf /\ k * last.args.multipleOf <= last.args.max

\* what remains of the bounds: a returned value is a multiple of
\* multipleOf, at least min and at most one stride above max
C1_WithinOneStride ==
  (IsIntCall /\ Returned) =>
    /\ last.args.min <= last.out.value
    /\ last.out.value <= last.args.max + last.args.multipleOf
    /\ last.out.value % last.args.multipleOf = 0

\* C3: an int call takes one draw when ceil(min/multipleOf) <
\* floor(max/multipleOf), and none when the two are equal, returning
\* effectiveMin * multipleOf.
C3_DrawsConsumed ==
  [][(last.op = "none" /\ last'.op = "int" /\ ValidStride(last'.args.multipleOf)) =>
       LET lo == Ceil(last'.args.min, last'.args.multipleOf)
           hi == Floor(last'.args.max, last'.args.multipleOf)
       IN /\ lo < hi => (pos' = pos + 1 /\ last'.out.kind = "value")
          /\ lo = hi => /\ pos' = pos
                        /\ last'.out.kind = "value"
                        /\ last'.out.value = lo * last'.args.multipleOf]_vars

C3_Witness ==
  /\ IsIntCall /\ Returned /\ pos = 1 /\ last.out.draws = 0
  /\ last.args.min < last.args.max /\ last.args.multipleOf = 3 * Scale

\* C5: with a positive integer multipleOf and ceil(min/multipleOf) >
\* floor(max/multipleOf), int raises RangeExhausted if max >= min and
\* InvalidRange if max < min; a range with max < min never returns.
C5_EmptyRangeErrors ==
  (IsIntCall /\ ValidStride(last.args.multipleOf)) =>
    /\ Ceil(last.args.min, last.args.multipleOf) > Floor(last.args.max, last.args.multipleOf) =>
         IF last.args.max >= last.args.min THEN Raised("RangeExhausted")
         ELSE Raised("InvalidRange")
    /\ last.args.max < last.args.min => ~Returned

C5_Witness ==
  /\ IsIntCall /\ Raised("RangeExhausted")
  /\ last.args.min = 1 * Scale /\ last.args.max = 1 * Scale /\ last.args.multipleOf = 3 * Scale

\* C6: int raises InvalidArgument whenever multipleOf is not a positive
\* integer, whatever min and max are (also when min > max).
C6_StrideFirst ==
  (IsIntCall /\ ~ValidStride(last.args.multipleOf)) => Raised("InvalidArgument")

C6_Witness ==
  /\ IsIntCall /\ Raised("InvalidArgument")
  /\ last.args.min > last.args.max /\ last.args.multipleOf > 0 /\ ~IsInteger(last.args.multipleOf)

IsIpv4Call == last.op = "ipv4"
\* the four numbers of a dotted text, and the prefix length of a CIDR text
OctetsIn(text) == [i \in 1..4 |-> ParseDigits(Split(text, ".")[i])]
AddressIn(cidrBlock) == OctetsIn(Split(cidrBlock, "/")[1])
PrefixIn(cidrBlock) == ParseDigits(Split(cidrBlock, "/")[2])
\* bit j of a four-octet address, bit 0 the leading one
BitAt(octets, j) == (octets[(j \div 8) + 1] \div (2 ^ (7 - (j % 8)))) % 2
ProperCidr(cidrBlock) ==
  /\ \A i \in 1..4 : AddressIn(cidrBlock)[i] <= 255
  /\ PrefixIn(cidrBlock) <= 32

\* C8: for a CIDR block a.b.c.d/p with octets in 0..255 and 0 <= p <= 32,
\* every address ipv4 returns agrees with a.b.c.d on its leading p bits;
\* for p = 32 the only possible result is a.b.c.d.
C8_CidrContainment ==
  (IsIpv4Call /\ Returned /\ ProperCidr(last.args.cidrBlock)) =>
    \A j \in 0..(PrefixIn(last.args.cidrBlock) - 1) :
      BitAt(OctetsIn(last.out.text), j) = BitAt(AddressIn(last.args.cidrBlock), j)

\* the same containment for prefix lengths below 32
C8_ContainmentBelow32 ==
  (IsIpv4Call /\ Returned /\ ProperCidr(last.args.cidrBlock)
     /\ PrefixIn(last.args.cidrBlock) < 32) =>
    \A j \in 0..(PrefixIn(last.args.cidrBlock) - 1) :
      BitAt(OctetsIn(last.out.text), j) = BitAt(AddressIn(last.args.cidrBlock), j)

IsBigIntCall == last.op = "bigInt"

C4_CollapsedCallInvisible ==
  /\ runB.last.op = last.op
  /\ runB.last.out.kind = last.out.kind
  /\ runB.last.out.value = last.out.value
  /\ runB.last.out.text = last.out.text
  /\ runB.last.out.error = last.out.error

C4_Witness ==
  /\ runB.inserted = 1
  /\ last.op = "int" /\ last.out.kind = "value" /\ last.out.draws = 1
  /\ last.out.value # last.args.min
  /\ runB.last.out = last.out

\* how often v occurs in outs
Count(outs, v) == Cardinality({i \in 1..Len(outs) : outs[i] = v})

\* C7: over the SweepK * delta equally spaced draws k / (SweepK * delta)
\* a valid, non-collapsed int call returns each stride-aligned value from
\* effectiveMin * multipleOf to effectiveMax * multipleOf exactly SweepK
\* times.
C7_IntUniform ==
  (sweep.op = "int" /\ sweep.k = SweepIntSteps(sweep.args)) =>
    /\ Len(sweep.outs) = SweepIntSteps(sweep.args)
    /\ \A j \in Ceil(sweep.args.min, sweep.args.multipleOf)
                  ..Floor(sweep.args.max, sweep.args.multipleOf) :
         Count(sweep.outs, j * sweep.args.multipleOf) = SweepK

\* the same count for the ranges within MaxAbs of zero
C7_UniformNearZero ==
  (sweep.op = "int" /\ sweep.k = SweepIntSteps(sweep.args)
     /\ sweep.args.min \in Nums) =>
    \A j \in Ceil(sweep.args.min, sweep.args.multipleOf)
                ..Floor(sweep.args.max, sweep.args.multipleOf) :
      Count(sweep.outs, j * sweep.args.multipleOf) = SweepK

\* C10: over all 10^L digit strings of the length L that a non-collapsed
\* bigInt call asks for, every stride-aligned value of the effective range
\* is selected by the same number of strings.
C10_BigIntUniform ==
  (sweep.op = "bigInt" /\ sweep.k = SweepBigIntSteps(sweep.args)) =>
    \A i, j \in bigEffectiveMin(sweep.args.min, sweep.args.multipleOf)
                  ..bigEffectiveMax(sweep.args.max, sweep.args.multipleOf) :
      Count(sweep.outs, i * sweep.args.multipleOf)
        = Count(sweep.outs, j * sweep.args.multipleOf)

\* C11 as stated: bigInt raises InvalidArgument for every input with
\* multipleOf <= 0, whatever min and max are.
C11_StrideErrorAlways ==
  (IsBigIntCall /\ last.args.multipleOf <= 0) => Raised("InvalidArgument")

\* C11, amended: with multipleOf <= 0, bigInt raises InvalidArgument when
\* min <= max, and InvalidRange when max < min (the range is checked
\* before multipleOf).
C11_StrideErrorAfterRange ==
  (IsBigIntCall /\ last.args.multipleOf <= 0) =>
    IF last.args.max < last.args.min THEN Raised("InvalidRange")
    ELSE Raised("InvalidArgument")

C11_Witness ==
  /\ IsBigIntCall /\ Raised("InvalidRange")
  /\ last.args.multipleOf = 0 /\ last.args.max < last.args.min

IsFloatCall == last.op = "float"
\* exactly one stride option is supplied and it is valid
ActiveStride(args) ==
  \/ /\ args.multipleOf # <<>> /\ args.fractionDigits = <<>>
     /\ args.multipleOf[1] > 0
  \/ /\ args.fractionDigits # <<>> /\ args.multipleOf = <<>>
     /\ IsInteger(args.fractionDigits[1]) /\ args.fractionDigits[1] >= 0
\* the stride s as a fraction <<numerator, denominator>>
StrideOf(args) ==
  IF args.multipleOf # <<>> THEN <<args.multipleOf[1], Scale>>
  ELSE <<1, Pow10(args.fractionDigits[1] \div Scale)>>
\* the k of the largest multiple k * s not exceeding max
TopMultiple(args) == Floor(args.max * StrideOf(args)[2], Scale * StrideOf(args)[1])
\* the number written k * s
MultipleOfStride(args, k) == FromRatio(k * StrideOf(args)[1], StrideOf(args)[2])
\* the options a float call was made with
OptionsOf(args) ==
  FloatOptions(<<args.min>>, <<args.max>>, args.multipleOf, args.fractionDigits)

\* the value a stride float call returns lies in [min, max]
C12_InRange ==
  (IsFloatCall /\ ActiveStride(last.args) /\ last.args.min <= last.args.max
     /\ Returned) =>
    /\ FLessEq(NumberOf(last.args.min), last.out.value)
    /\ FLessEq(last.out.value, NumberOf(last.args.max))

\* the value a stride float call returns is the number written k * s
C12_OnStride ==
  (IsFloatCall /\ ActiveStride(last.args) /\ last.args.min <= last.args.max
     /\ Returned) =>
    \E k \in (Floor(last.args.min * StrideOf(last.args)[2],
                    Scale * StrideOf(last.args)[1]) - 2)
                ..(TopMultiple(last.args) + 2) :
      last.out.value = MultipleOfStride(last.args, k)

\* the largest multiple of s not exceeding max is returned for some draw
C12_TopReached ==
  (IsFloatCall /\ ActiveStride(last.args) /\ last.args.min <= last.args.max
     /\ TopMultiple(last.args) * StrideOf(last.args)[1] * Scale
          >= last.args.min * StrideOf(last.args)[2]) =>
    \E i \in 0..(RDen - 1) :
      LET out == float(OptionsOf(last.args), <<RDen - 1 - i, RDen>>)
      IN out.kind = "value"
           /\ out.value = MultipleOfStride(last.args, TopMultiple(last.args))

\* C12: float with an active stride s and min <= max returns, whenever it
\* returns, an integer multiple of s with min <= v <= max, and the largest
\* multiple of s not exceeding max is returned for some draw.
C12_StrideBounds == C12_InRange /\ C12_OnStride /\ C12_TopReached

\* C13: float without multipleOf and fractionDigits and with min <= max
\* takes exactly one draw r (also when min = max) and returns
\* r * (max - min) + min, a value v with min <= v < max when min < max and
\* v = min when min = max.
C13_ExclusiveMax ==
  (IsFloatCall /\ last.args.multipleOf = <<>> /\ last.args.fractionDigits = <<>>
     /\ last.args.min <= last.args.max) =>
    /\ Returned
    /\ last.out.draws = 1
    /\ last.out.value
         = FAdd(FMul(FromRatio(last.real[1], last.real[2]),
                     FSub(NumberOf(last.args.max), NumberOf(last.args.min))),
                NumberOf(last.args.min))
    /\ last.args.min < last.args.max =>
         /\ FLessEq(NumberOf(last.args.min), last.out.value)
         /\ FLess(last.out.value, NumberOf(last.args.max))
    /\ last.args.min = last.args.max => last.out.value = NumberOf(last.args.min)

\* what remains of C13: one draw, and min <= v <= max
C13_InclusiveMax ==
  (IsFloatCall /\ last.args.multipleOf = <<>> /\ last.args.fractionDigits = <<>>
     /\ last.args.min <= last.args.max) =>
    /\ Returned
    /\ last.out.draws = 1
    /\ FLessEq(NumberOf(last.args.min), last.out.value)
    /\ FLessEq(last.out.value, NumberOf(last.args.max))

\* C14 as stated: float raises ConflictingOptions whenever both multipleOf
\* and fractionDigits are supplied, for every min and max, and takes no
\* draw.
C14_ConflictAlways ==
  (IsFloatCall /\ last.args.multipleOf # <<>> /\ last.args.fractionDigits # <<>>) =>
    /\ Raised("ConflictingOptions")
    /\ last.out.draws = 0

\* C14, amended: with both multipleOf and fractionDigits supplied, float
\* raises ConflictingOptions when min <= max and InvalidRange when
\* max < min (the range is checked first); it takes no draw.
C14_ConflictAfterRange ==
  (IsFloatCall /\ last.args.multipleOf # <<>> /\ last.args.fractionDigits # <<>>) =>
    /\ IF last.args.max < last.args.min THEN Raised("InvalidRange")
       ELSE Raised("ConflictingOptions")
    /\ last.out.draws = 0

C14_Witness ==
  /\ IsFloatCall /\ Raised("ConflictingOptions") /\ pos = 1
  /\ last.args.multipleOf = <<Scale>> /\ last.args.fractionDigits = <<Scale>>
  /\ last.args.min < last.args.max

\* C15: float raises InvalidRange whenever max < min, with or without a
\* stride; with min <= max and one stride option supplied it raises
\* InvalidArgument when fractionDigits is negative or not an integer and
\* when multipleOf <= 0.
C15_FloatArgumentErrors ==
  IsFloatCall =>
    /\ last.args.max < last.args.min => Raised("InvalidRange")
    /\ (/\ last.args.min <= last.args.max
        /\ last.args.multipleOf = <<>> /\ last.args.fractionDigits # <<>>
        /\ (last.args.fractionDigits[1] < 0 \/ ~IsInteger(last.args.fractionDigits[1])))
         => Raised("InvalidArgument")
    /\ (/\ last.args.min <= last.args.max
        /\ last.args.fractionDigits = <<>> /\ last.args.multipleOf # <<>>
        /\ last.args.multipleOf[1] <= 0)
         => Raised("InvalidArgument")

C15_Witness ==
  /\ IsFloatCall /\ Raised("InvalidArgument")
  /\ last.args.min <= last.args.max
  /\ last.args.multipleOf = <<>> /\ last.args.fractionDigits # <<>>
  /\ last.args.fractionDigits[1] > 0 /\ ~IsInteger(last.args.fractionDigits[1])

IsRomanCall == last.op = "romanNumeral"
\* the number a Roman numeral is read as: the values of its letters added
\* up, a letter standing before a greater one taken away
LetterValue(c) ==
  IF c = "I" THEN 1 ELSE IF c = "V" THEN 5 ELSE IF c = "X" THEN 10
  ELSE IF c = "L" THEN 50 ELSE IF c = "C" THEN 100 ELSE IF c = "D" THEN 500
  ELSE 1000
RECURSIVE DecodeFrom(_, _)
DecodeFrom(text, i) ==
  IF i > Len(text) THEN 0
  ELSE (IF i < Len(text) /\ LetterValue(text[i]) < LetterValue(text[i + 1])
          THEN -LetterValue(text[i]) ELSE LetterValue(text[i]))
       + DecodeFrom(text, i + 1)
Decode(text) == DecodeFrom(text, 1)

\* C16, first half: for every n in 1..3999 the encoding loop leaves the
\* remainder 0 and the symbols it has appended add up to n; 1994 is
\* written MCMXCIV.
C16_GreedySum ==
  (sweep.op = "romanNumeral" /\ sweep.outs # <<>>) =>
    /\ sweep.outs[1].num = 0
    /\ Decode(sweep.outs[1].result) = sweep.args.num
    /\ sweep.args.num = 1994 =>
         sweep.outs[1].result = <<"M", "C", "M", "X", "C", "I", "V">>

\* C16: the numeral romanNumeral({min, max}) returns is read as an integer
\* of [min, max].
C16_NumeralInRange ==
  (IsRomanCall /\ Returned) =>
    /\ last.args.min <= Decode(last.out.text) * Scale
    /\ Decode(last.out.text) * Scale <= last.args.max

\* C17: romanNumeral raises InvalidArgument when min < 1 (the message is
\* the one about min even if max > 3999 as well) and when max > 3999, and
\* InvalidRange when 1 <= max < min <= 3999; no draw is taken in any of
\* these cases.
C17_RomanErrors ==
  IsRomanCall =>
    /\ last.args.min < 1 * Scale =>
         /\ Raised("InvalidArgument") /\ last.out.text[1] = "Min value "
         /\ last.out.draws = 0
    /\ (last.args.min >= 1 * Scale /\ last.args.max > 3999 * Scale) =>
         /\ Raised("InvalidArgument") /\ last.out.text[1] = "Max value "
         /\ last.out.draws = 0
    /\ (1 * Scale <= last.args.max /\ last.args.max < last.args.min
          /\ last.args.min <= 3999 * Scale) =>
         /\ Raised("InvalidRange") /\ last.out.draws = 0

C17_Witness ==
  /\ IsRomanCall /\ pos = 1
  /\ last.args.min = 0 /\ last.args.max = 4000 * Scale
  /\ Raised("InvalidArgument") /\ last.out.text[1] = "Min value "

IsEncodeCall == last.op \in {"binary", "octal", "hex"}
RadixOf(op) == IF op = "binary" THEN 2 ELSE IF op = "octal" THEN 8 ELSE 16
\* the bounds of the call: min defaults to 0, max to the last one-digit
\* number of the radix
EncodedMin == Default(last.args.min, 0)
EncodedMax == Default(last.args.max, (RadixOf(last.op) - 1) * Scale)
\* the integer a text of lowercase digits, with or without a leading "-",
\* is read as; -1 - the greatest number if it is not such a text
DigitOf(c) ==
  IF \E i \in 1..16 : RadixDigits[i] = c
    THEN (CHOOSE i \in 1..16 : RadixDigits[i] = c) - 1
  ELSE 16
RECURSIVE ParseNat(_, _, _)
ParseNat(text, radix, acc) ==
  IF text = <<>> THEN acc
  ELSE ParseNat(Tail(text), radix, acc * radix + DigitOf(Head(text)))
WellFormed(text, radix) ==
  LET digits == IF text # <<>> /\ text[1] = "-" THEN Tail(text) ELSE text
  IN digits # <<>> /\ \A i \in 1..Len(digits) : DigitOf(digits[i]) < radix
ParseRadix(text, radix) ==
  IF text[1] = "-" THEN -ParseNat(Tail(text), radix, 0)
  ELSE ParseNat(text, radix, 0)

\* C18, first half: binary, octal and hex return the rendering of the
\* integer int({min, max}) returns for the same draw, in lowercase digits
\* without a prefix, having taken as many draws; they raise when, and
\* what, that int call raises.
C18_RendersInt ==
  IsEncodeCall =>
    LET i == int(Options(<<EncodedMin>>, <<EncodedMax>>, <<>>), last.real)
    IN /\ i.kind = "value" =>
            /\ Returned /\ last.out.draws = i.draws
            /\ WellFormed(last.out.text, RadixOf(last.op))
            /\ ParseRadix(last.out.text, RadixOf(last.op)) * Scale = i.value
       /\ i.kind = "error" => Raised(i.error)

\* C18: moreover the text, read back in its radix, is an integer of
\* [min, max].
C18_EncodersInRange ==
  /\ C18_RendersInt
  /\ (IsEncodeCall /\ Returned) =>
       /\ EncodedMin <= ParseRadix(last.out.text, RadixOf(last.op)) * Scale
       /\ ParseRadix(last.out.text, RadixOf(last.op)) * Scale <= EncodedMax

\* the blocks the ten network names stand for: four octets and a prefix
\* length
NamedBlock(network) ==
  IF network = "any" THEN <<0, 0, 0, 0, 0>>
  ELSE IF network = "loopback" THEN <<127, 0, 0, 0, 8>>
  ELSE IF network = "private-a" THEN <<10, 0, 0, 0, 8>>
  ELSE IF network = "private-b" THEN <<172, 16, 0, 0, 12>>
  ELSE IF network = "private-c" THEN <<192, 168, 0, 0, 16>>
  ELSE IF network = "test-net-1" THEN <<192, 0, 2, 0, 24>>
  ELSE IF network = "test-net-2" THEN <<198, 51, 100, 0, 24>>
  ELSE IF network = "test-net-3" THEN <<203, 0, 113, 0, 24>>
  ELSE IF network = "link-local" THEN <<169, 254, 0, 0, 16>>
  ELSE <<224, 0, 0, 0, 4>>

\* C19: ipv4({network}) works on the block its network name stands for
\* and returns an address of that block; private-a gives a first octet of
\* 10, private-b a first octet of 172 and a second one in 16..31.
C19_NamedNetworks ==
  (IsIpv4Call /\ last.args.network # <<>>) =>
    LET block == NamedBlock(last.args.network[1])
        octets == OctetsIn(last.out.text)
    IN /\ \A i \in 1..4 : AddressIn(last.args.cidrBlock)[i] = block[i]
       /\ PrefixIn(last.args.cidrBlock) = block[5]
       /\ Returned
       /\ \A j \in 0..(block[5] - 1) : BitAt(octets, j) = BitAt(block, j)
       /\ last.args.network[1] = "private-a" => octets[1] = 10
       /\ last.args.network[1] = "private-b" =>
            (octets[1] = 172 /\ octets[2] \in 16..31)

C19_Witness ==
  /\ IsIpv4Call /\ Returned /\ last.args.network = <<"private-b">>
  /\ OctetsIn(last.out.text)[2] = 31

\* the addresses of a block of at most 256 addresses, as dotted texts
BlockAddresses(cidrBlock) ==
  LET o == AddressIn(cidrBlock)
      size == 2 ^ (32 - PrefixIn(cidrBlock))
  IN {Join(<<ToString10(o[1]), ToString10(o[2]), ToString10(o[3]),
             ToString10(o[4] - (o[4] % size) + j)>>, ".") : j \in 0..(size - 1)}
SweptIpv4 == sweep.op = "ipv4" /\ sweep.k = SweepIpv4Steps(sweep.args)

\* C20: over the draws of a block with prefix length below 32, each host
\* offset taken equally often, ipv4 returns every address of the block,
\* the network address and the broadcast address included, equally often
\* and nothing else: networkIp | hostOffset maps the offsets one-to-one
\* onto the block.
C20_OffsetBijection ==
  /\ sweep.op = "ipv4" =>
       \A i \in 1..Len(sweep.outs) :
         sweep.outs[i] \in BlockAddresses(sweep.args.cidrBlock)
  /\ SweptIpv4 =>
       \A a \in BlockAddresses(sweep.args.cidrBlock) :
         Count(sweep.outs, a) = 2 ^ (SweepK - 1)

C20_Witness ==
  /\ SweptIpv4 /\ sweep.args.cidrBlock = CidrText(10, 10, 10, 255, 32 - MaxHostBits)
  /\ Head(sweep.outs) = Join(<<ToString10(10), ToString10(10), ToString10(10),
                               ToString10(256 - 2 ^ MaxHostBits)>>, ".")
  /\ sweep.outs[Len(sweep.outs)] = Join(<<ToString10(10), ToString10(10),
                                          ToString10(10), ToString10(255)>>, ".")

\* a text made of four groups of one to three digits with dots between
\* them, a "/" and one or two digits
CidrSyntax(text) ==
  \E a \in 1..3, b \in 1..3, c \in 1..3, d \in 1..3, e \in 1..2 :
    /\ Len(text) = a + b + c + d + e + 4
    /\ \A i \in 1..Len(text) :
         IF i \in {a + 1, a + b + 2, a + b + c + 3} THEN text[i] = "."
         ELSE IF i = a + b + c + d + 4 THEN text[i] = "/"
         ELSE text[i] \in {"0", "1", "2", "3", "4", "5", "6", "7", "8", "9"}

\* C21: ipv4 raises InvalidArgument for every cidrBlock that is not four
\* groups of 1-3 digits separated by dots, then "/" and 1-2 digits, and
\* takes no draw when it does.
C21_CidrSyntaxError ==
  (IsIpv4Call /\ ~CidrSyntax(last.args.cidrBlock)) =>
    /\ Raised("InvalidArgument")
    /\ last.out.draws = 0

C21_Witness ==
  /\ IsIpv4Call /\ pos = 1 /\ Raised("InvalidArgument")
  /\ last.args.cidrBlock = CidrText(1, 2, 3, 4, 100)

\* the outcome of the operation op on the arguments recorded for a call,
\* had the source held the draw real ready
OutcomeOf(op, args, real) ==
  IF op = "int" THEN int(Options(<<args.min>>, <<args.max>>, <<args.multipleOf>>), real)
  ELSE IF op = "float"
    THEN float(FloatOptions(<<args.min>>, <<args.max>>, args.multipleOf,
                            args.fractionDigits), real)
  ELSE IF op = "bigInt" THEN bigInt(args.min, args.max, args.multipleOf, <<>>)
  ELSE IF op = "binary" THEN binary(args, real)
  ELSE IF op = "octal" THEN octal(args, real)
  ELSE IF op = "hex" THEN hex(args, real)
  ELSE IF op = "romanNumeral"
    THEN romanNumeral(RangeOptions(<<args.min>>, <<args.max>>), real)
  ELSE ipv4([cidrBlock |-> <<args.cidrBlock>>, network |-> <<>>], real)

\* a call that raises has taken no draw and asked for no digits, and it
\* raises the same error whatever the seed and the position of the source
ErrorsFixedByArguments ==
  (last.op # "none" /\ last.out.kind = "error") =>
    /\ last.out.draws = 0
    /\ last.numeric = <<>>
    /\ \A s \in Seeds, p \in 0..MaxDraws :
         OutcomeOf(last.op, last.args, Real(s, p)) = last.out

\* C22: a call of int, float, bigInt, binary, octal, hex, romanNumeral or
\* ipv4 that raises leaves the position of the source where it was, and
\* whether it raises, and what, is fixed by its arguments alone.
C22_ErrorsDeterministic ==
  /\ []ErrorsFixedByArguments
  /\ [][(last'.op # "none" /\ last'.out.kind = "error") => pos' = pos]_vars

C22_Witness ==
  /\ pos = MaxDraws /\ last.op = "float" /\ Raised("RangeExhausted")

\* the ceiling and the floor of n / d for d > 0: the least k with
\* k * d >= n and the greatest k with k * d <= n
Magnitude(n) == IF n < 0 THEN -n ELSE n
CeilOfQuotient(n, d) ==
  CHOOSE k \in (-Magnitude(n))..Magnitude(n) : k * d >= n /\ (k - 1) * d < n
FloorOfQuotient(n, d) ==
  CHOOSE k \in (-Magnitude(n))..Magnitude(n) : k * d <= n /\ (k + 1) * d > n

\* C23: for min and max of either sign and multipleOf > 0, with a
\* quotient truncated towards zero and a remainder of the sign of the
\* dividend, min / multipleOf + (1 if min % multipleOf > 0) is the ceiling
\* of min / multipleOf and max / multipleOf - (1 if max % multipleOf < 0)
\* is the floor of max / multipleOf.
C23_RemainderCorrection ==
  (IsBigIntCall /\ last.args.multipleOf > 0) =>
    LET min == last.args.min
        max == last.args.max
        multipleOf == last.args.multipleOf
    IN /\ Magnitude(BigDiv(min, multipleOf) * multipleOf) <= Magnitude(min)
       /\ BigRem(min, multipleOf) * min >= 0
       /\ Magnitude(BigRem(min, multipleOf)) < multipleOf
       /\ bigEffectiveMin(min, multipleOf) = CeilOfQuotient(min, multipleOf)
       /\ bigEffectiveMax(max, multipleOf) = FloorOfQuotient(max, multipleOf)

C23_Witness ==
  /\ IsBigIntCall /\ Returned
  /\ last.args.min = -5 /\ last.args.max = -3 /\ last.args.multipleOf = 2
  /\ last.numeric = <<>> /\ last.out.value = -4

\* the number of decimal digits of n >= 1
DecimalDigits(n) == CHOOSE L \in 1..9 : Pow10(L - 1) <= n /\ n < Pow10(L)

\* C24: bigInt asks for a digit string only when effectiveMin <
\* effectiveMax: once, for as many digits as delta has, leading zeros
\* allowed; the offset, the digits mod delta, lies in [0, delta - 1] and
\* every offset of that range is given by some digit string; a collapsed
\* range or an error asks for none.
C24_DigitRequest ==
  IsBigIntCall =>
    LET min == last.args.min
        max == last.args.max
        multipleOf == last.args.multipleOf
    IN IF /\ multipleOf > 0 /\ min <= max
          /\ CeilOfQuotient(min, multipleOf) < FloorOfQuotient(max, multipleOf)
         THEN LET effectiveMin == CeilOfQuotient(min, multipleOf)
                  delta == FloorOfQuotient(max, multipleOf) - effectiveMin + 1
                  offset == ParseDigits(last.numeric[1].text) % delta
              IN /\ Len(last.numeric) = 1
                 /\ last.numeric[1].request.length = DecimalDigits(delta)
                 /\ last.numeric[1].request.allowLeadingZeros
                 /\ Len(last.numeric[1].text) = DecimalDigits(delta)
                 /\ offset \in 0..(delta - 1)
                 /\ Returned
                 /\ last.out.value = (effectiveMin + offset) * multipleOf
                 /\ \A o \in 0..(delta - 1) :
                      \E numeric \in {PadLeft(ToString10(o), DecimalDigits(delta))} :
                        /\ numeric \in Numeric(last.numeric[1].request)
                        /\ bigInt(min, max, multipleOf, numeric).value
                             = (effectiveMin + o) * multipleOf
       ELSE last.numeric = <<>>

C24_Witness ==
  /\ IsBigIntCall /\ Returned
  /\ last.args.min = -5 /\ last.args.max = 5 /\ last.args.multipleOf = 1
  /\ Len(last.numeric) = 1 /\ last.numeric[1].text = <<"0", "7">>
  /\ last.out.value = 2

\* an int call on integers, and the same three integers as bigInt takes
\* them
IsIntegerIntCall ==
  /\ IsIntCall
  /\ IsInteger(last.args.min) /\ IsInteger(last.args.max)
  /\ IsInteger(last.args.multipleOf)
BigEarlyOfInt ==
  bigIntEarly(last.args.min \div Scale, last.args.max \div Scale,
              last.args.multipleOf \div Scale)
\* the values bigInt can return on them, over all digit strings
BigValuesOfInt ==
  LET min == last.args.min \div Scale
      max == last.args.max \div Scale
      multipleOf == last.args.multipleOf \div Scale
  IN {bigInt(min, max, multipleOf, numeric).value :
        numeric \in Numeric(bigIntRequests(min, max, multipleOf)[1])}

\* C25, first part: int and bigInt fail on the same integers and collapse
\* on the same integers.
C25_SameFailuresAndCollapses ==
  IsIntegerIntCall =>
    /\ (last.out.kind = "error") <=> (BigEarlyOfInt \notin {"", "collapsed"})
    /\ (Returned /\ last.out.draws = 0) <=> (BigEarlyOfInt = "collapsed")
    /\ (Returned /\ last.out.draws = 0) =>
         last.out.value
           = bigInt(last.args.min \div Scale, last.args.max \div Scale,
                    last.args.multipleOf \div Scale, <<>>).value * Scale

\* C25: moreover, where they succeed, int returns one of the values
\* bigInt can return, the multiples k * multipleOf with
\* ceil(min / multipleOf) <= k <= floor(max / multipleOf).
C25_IntMirrorsBigInt ==
  /\ C25_SameFailuresAndCollapses
  /\ (IsIntegerIntCall /\ Returned /\ last.out.draws = 1) =>
       /\ last.out.value \in {v * Scale : v \in BigValuesOfInt}
       /\ BigValuesOfInt
            = {k * (last.args.multipleOf \div Scale) :
                 k \in CeilOfQuotient(last.args.min \div Scale,
                                      last.args.multipleOf \div Scale)
                       ..FloorOfQuotient(last.args.max \div Scale,
                                         last.args.multipleOf \div Scale)}

\* the calls that hand their range to int: the encoders, romanNumeral and
\* float with a stride
IsDelegatingCall ==
  \/ IsEncodeCall
  \/ IsRomanCall
  \/ (IsFloatCall /\ (last.args.multipleOf # <<>> \/ last.args.fractionDigits # <<>>))
\* the least and the greatest integer of the range handed to int
DelegatedLeast ==
  IF IsEncodeCall THEN Ceil(EncodedMin, Scale)
  ELSE IF IsRomanCall THEN Ceil(last.args.min, Scale)
  ELSE MathCeil(FMul(NumberOf(last.args.min),
                     IF last.args.fractionDigits # <<>>
                       THEN FromInt(Pow10(last.args.fractionDigits[1] \div Scale))
                     ELSE factorOf(NumberOf(last.args.multipleOf[1]))))
DelegatedGreatest ==
  IF IsEncodeCall THEN Floor(EncodedMax, Scale)
  ELSE IF IsRomanCall THEN Floor(last.args.max, Scale)
  ELSE MathFloor(FMul(NumberOf(last.args.max),
                      IF last.args.fractionDigits # <<>>
                        THEN FromInt(Pow10(last.args.fractionDigits[1] \div Scale))
                      ELSE factorOf(NumberOf(last.args.multipleOf[1]))))
DelegatedDraws ==
  IF last.out.kind = "error" THEN 0
  ELSE IF DelegatedLeast < DelegatedGreatest THEN 1 ELSE 0

DrawsOfDelegatedRange ==
  IsDelegatingCall =>
    /\ last.out.draws = DelegatedDraws
    /\ Returned => DelegatedLeast <= DelegatedGreatest

\* C26: float with a stride, binary, octal, hex and romanNumeral take the
\* draws of their one int call and no other: one when the range handed
\* to int holds more than one integer, none when it holds one (and none
\* when the call raises); the source moves on by as much.
C26_DelegatedDraws ==
  /\ []DrawsOfDelegatedRange
  /\ [][last'.op \in {"binary", "octal", "hex", "romanNumeral", "float"} =>
         pos' = pos + last'.out.draws]_vars

C26_Witness ==
  /\ IsRomanCall /\ Returned /\ pos = 1
  /\ last.args.min = 1994 * Scale /\ last.args.max = 1994 * Scale
  /\ last.out.text = <<"M", "C", "M", "X", "C", "I", "V">>

\* the thirteen symbols of a numeral in the order they are written, with
\* their values and how often each may stand
NumeralSymbols ==
  <<<<<<"M">>, 1000, 3>>, <<<<"C", "M">>, 900, 1>>, <<<<"D">>, 500, 1>>,
    <<<<"C", "D">>, 400, 1>>, <<<<"C">>, 100, 3>>, <<<<"X", "C">>, 90, 1>>,
    <<<<"L">>, 50, 1>>, <<<<"X", "L">>, 40, 1>>, <<<<"X">>, 10, 3>>,
    <<<<"I", "X">>, 9, 1>>, <<<<"V">>, 5, 1>>, <<<<"I", "V">>, 4, 1>>,
    <<<<"I">>, 1, 3>>>>
StartsWith(text, k) == Len(text) >= Len(k) /\ SubSeq(text, 1, Len(k)) = k
\* how often the symbol k stands at the head of text
RECURSIVE LeadingCount(_, _)
LeadingCount(text, k) ==
  IF StartsWith(text, k)
    THEN 1 + LeadingCount(SubSeq(text, Len(k) + 1, Len(text)), k)
  ELSE 0
\* text read symbol by symbol from symbol i on: the count of each symbol,
\* then what is left of the text
RECURSIVE SymbolCounts(_, _)
SymbolCounts(text, i) ==
  IF i > Len(NumeralSymbols) THEN <<text>>
  ELSE LET count == LeadingCount(text, NumeralSymbols[i][1])
       IN <<count>> \o SymbolCounts(SubSeq(text, count * Len(NumeralSymbols[i][1]) + 1,
                                          Len(text)), i + 1)
RECURSIVE CountedValue(_, _)
CountedValue(counts, i) ==
  IF i > Len(NumeralSymbols) THEN 0
  ELSE counts[i] * NumeralSymbols[i][2] + CountedValue(counts, i + 1)

\* C27: the numeral of every n in 1..3999 is made of the thirteen symbols
\* in their order, M, C, X and I at most three times each and every other
\* symbol at most once, and the symbols add up to n, so that no two n are
\* written alike.
C27_CanonicalNumeral ==
  (sweep.op = "romanNumeral" /\ sweep.outs # <<>>) =>
    LET counts == SymbolCounts(sweep.outs[1].result, 1)
    IN /\ counts[Len(NumeralSymbols) + 1] = <<>>
       /\ \A i \in 1..Len(NumeralSymbols) : counts[i] <= NumeralSymbols[i][3]
       /\ CountedValue(counts, 1) = sweep.args.num

C27_Witness ==
  /\ sweep.op = "romanNumeral" /\ sweep.args.num = 3888
  /\ sweep.outs = <<[result |-> <<"M", "M", "M", "D", "C", "C", "C", "L", "X", "X",
                                  "X", "V", "I", "I", "I">>, num |-> 0]>>

\* C28: for every text the syntax check lets through, octets above 255
\* and prefix lengths of 33 to 99 included, ipv4 returns four decimal
\* integers of 0..255 with dots between them.
C28_FourBytes ==
  (IsIpv4Call /\ CidrSyntax(last.args.cidrBlock)) =>
    /\ Returned
    /\ LET groups == Split(last.out.text, ".")
       IN /\ Len(groups) = 4
          /\ \A i \in 1..4 :
               /\ IsDigitRun(groups[i], 1, 3)
               /\ ParseDigits(groups[i]) \in 0..255
               /\ groups[i] = ToString10(ParseDigits(groups[i]))

C28_Witness ==
  /\ IsIpv4Call /\ Returned /\ last.out.draws = 1
  /\ last.args.cidrBlock = CidrText(999, 999, 999, 999, 99)
  /\ OctetsIn(last.out.text)[1] = 255

\* ---- C29
IsPassword == last.op = "password"
Generated == (Len(last.args.prefix) + 1)..Len(last.out.text)
LowerVowels == {"a", "e", "i", "o", "u"}
LowerConsonants ==
  {fromCodePoint(n) : n \in 97..122} \ LowerVowels
Upto(text, k) == SubSeq(text, 1, k)

Acceptable(memorable, pattern) ==
  memorable \/ \E n \in 33..127 : test(pattern, <<fromCodePoint(n)>>)
PasswordRunning == IsPassword /\ last.out.kind = "pending"
Rejected ==
  /\ PasswordRunning
  /\ last'.op = "password" /\ last'.out.kind = "pending"
  /\ ~test(patternInForce(last.args.memorable, last.pattern, last.out.text),
           <<candidate(last.args.memorable, last'.real)>>)
RejectionKeepsPrefix ==
  [][Rejected => (pos' = pos + 1 /\ last'.out.text = last.out.text)]_vars

\* C30: a call of password whose patterns in force each accept a candidate
\* raises no error and comes to return a string, and each rejected
\* candidate takes exactly one draw and leaves the prefix as it was
C30_PasswordReturns ==
  /\ [](IsPassword /\ Acceptable(last.args.memorable, last.args.pattern)
          => last.out.kind # "error")
  /\ (PasswordRunning /\ Acceptable(last.args.memorable, last.args.pattern))
       ~> (IsPassword /\ last.out.kind = "value")
  /\ RejectionKeepsPrefix

====
